---- MODULE Spec2Model ----
(***************************************************************************)
(* Sample-buffer abstraction core of cpal: the raw-sample codecs           *)
(* (src/src/types/*.rs, src/src/samples/i64.rs) and the interleaved and    *)
(* separated buffer views (src/src/buffers/*.rs).                          *)
(*                                                                         *)
(* A raw sample is a sequence of bytes (0..255), 1-indexed: raw[1] is the  *)
(* byte at the lowest address (v.0[0] in the source).  A primitive of a    *)
(* type of at most 32 signed bits (i8, u8, i16, u16, I24, U24, i32) is an  *)
(* integer.  A primitive of u32, f32 (its bit pattern), i64 or u64 does    *)
(* not fit the model checker's integers and is the sequence of its 16-bit  *)
(* limbs, most significant first (two's complement for i64).               *)
(***************************************************************************)
EXTENDS Integers, Sequences, FiniteSets, TLC

VARIABLES
    c_codec,        \* codec run: the raw-sample type under conversion
    c_start,        \* codec run: the value the run started from
    c_val,          \* codec run: the current value
    c_phase,        \* codec run: "prim" / "raw" input, then the conversions applied
    fmt,            \* buffer run: the raw-sample type T of the two views
    iview,          \* InterleavedBuffer(Mut): [samples, frame_count, channel_count]
    sview,          \* SeparatedBuffer(Mut): [channels, frame_count]
    last,           \* the last write operation: its name, arguments, the views before it, who panicked
    out,            \* the results of the read operations since the last write
    source          \* AudioSource run: the Sinus, and fill_buffer's position on each layout

vars == <<c_codec, c_start, c_val, c_phase, fmt, iview, sview, last, out, source>>

codecVars == <<c_codec, c_start, c_val, c_phase>>
bufVars == <<fmt, iview, sview, last, out, source>>

(***************************************************************************)
(* Bounds of the model.                                                    *)
(***************************************************************************)
MaxF == 4       \* largest frame_count of a view
MaxC == 2       \* largest channel_count of a view
Extra == 1      \* how many elements an input may hold beyond a view's capacity

Min(a, b) == IF a < b THEN a ELSE b

Byte == 0..255

(***************************************************************************)
(* Integer <-> byte conversions of the standard library, for the integer   *)
(* types whose values fit the model checker's integers.                    *)
(***************************************************************************)
RECURSIVE to_le_bytes(_, _)
\* iN::to_le_bytes / uN::to_le_bytes: the n low bytes of v in two's complement,
\* least significant first.
to_le_bytes(v, n) ==
    IF n = 0 THEN <<>> ELSE <<v % 256>> \o to_le_bytes(v \div 256, n - 1)

Reverse(s) == [i \in 1..Len(s) |-> s[Len(s) + 1 - i]]

\* iN::to_be_bytes / uN::to_be_bytes
to_be_bytes(v, n) == Reverse(to_le_bytes(v, n))

RECURSIVE HornerBE(_, _)
\* the positional value of the bytes of s (most significant first) added to acc * 256^Len(s)
HornerBE(acc, s) ==
    IF s = <<>> THEN acc ELSE HornerBE(acc * 256 + Head(s), Tail(s))

\* uN::from_be_bytes, N <= 24 bits used
ufrom_be_bytes(b) == HornerBE(0, b)
\* uN::from_le_bytes
ufrom_le_bytes(b) == ufrom_be_bytes(Reverse(b))
\* iN::from_be_bytes: the top byte carries the sign
ifrom_be_bytes(b) ==
    HornerBE(IF Head(b) >= 128 THEN Head(b) - 256 ELSE Head(b), Tail(b))
\* iN::from_le_bytes
ifrom_le_bytes(b) == ifrom_be_bytes(Reverse(b))

\* i32 >> u8::BITS: an arithmetic shift right by 8 bits
Shr8(x) == x \div 256

(***************************************************************************)
(* The same conversions for the types held as 16-bit limbs.                *)
(***************************************************************************)
RECURSIVE limbs_to_be_bytes(_)
limbs_to_be_bytes(p) ==
    IF p = <<>> THEN <<>>
    ELSE <<Head(p) \div 256, Head(p) % 256>> \o limbs_to_be_bytes(Tail(p))

limbs_to_le_bytes(p) == Reverse(limbs_to_be_bytes(p))

limbs_from_be_bytes(b) == [i \in 1..(Len(b) \div 2) |-> b[2 * i - 1] * 256 + b[2 * i]]

limbs_from_le_bytes(b) == limbs_from_be_bytes(Reverse(b))

(***************************************************************************)
(* The raw-sample types: From<Primitive> for T (encode) and                *)
(* From<T> for Primitive (decode), one pair per type, as in the source.    *)
(***************************************************************************)
\* src/src/types/i8.rs: impl From<Primitive> for NE: Self(v.to_le_bytes())
i8_NE_from_primitive(v) == to_le_bytes(v, 1)
\* src/src/types/i8.rs: impl From<NE> for Primitive: Self::from_le_bytes(v.0)
i8_NE_to_primitive(r) == ifrom_le_bytes(r)

\* src/src/types/u8.rs: impl From<Primitive> for NE: Self(v.to_le_bytes())
u8_NE_from_primitive(v) == to_le_bytes(v, 1)
\* src/src/types/u8.rs: impl From<NE> for Primitive: Self::from_le_bytes(v.0)
u8_NE_to_primitive(r) == ufrom_le_bytes(r)

\* src/src/types/i16.rs: impl From<Primitive> for LE: Self(v.to_le_bytes())
i16_LE_from_primitive(v) == to_le_bytes(v, 2)
\* src/src/types/i16.rs: impl From<LE> for Primitive: Self::from_le_bytes(v.0)
i16_LE_to_primitive(r) == ifrom_le_bytes(r)
\* src/src/types/i16.rs: impl From<Primitive> for BE: Self(v.to_be_bytes())
i16_BE_from_primitive(v) == to_be_bytes(v, 2)
\* src/src/types/i16.rs: impl From<BE> for Primitive: Self::from_be_bytes(v.0)
i16_BE_to_primitive(r) == ifrom_be_bytes(r)

\* src/src/types/u16.rs: impl From<Primitive> for LE: Self(v.to_le_bytes())
u16_LE_from_primitive(v) == to_le_bytes(v, 2)
\* src/src/types/u16.rs: impl From<LE> for Primitive: Self::from_le_bytes(v.0)
u16_LE_to_primitive(r) == ufrom_le_bytes(r)
\* src/src/types/u16.rs: impl From<Primitive> for BE: Self(v.to_be_bytes())
u16_BE_from_primitive(v) == to_be_bytes(v, 2)
\* src/src/types/u16.rs: impl From<BE> for Primitive: Self::from_be_bytes(v.0)
u16_BE_to_primitive(r) == ufrom_be_bytes(r)

\* src/src/types/i32.rs: impl From<Primitive> for LE: Self(v.to_le_bytes())
i32_LE_from_primitive(v) == to_le_bytes(v, 4)
\* src/src/types/i32.rs: impl From<LE> for Primitive: Self::from_le_bytes(v.0)
i32_LE_to_primitive(r) == ifrom_le_bytes(r)
\* src/src/types/i32.rs: impl From<Primitive> for BE: Self(v.to_be_bytes())
i32_BE_from_primitive(v) == to_be_bytes(v, 4)
\* src/src/types/i32.rs: impl From<BE> for Primitive: Self::from_be_bytes(v.0)
i32_BE_to_primitive(r) == ifrom_be_bytes(r)

\* src/src/types/u32.rs: impl From<Primitive> for LE: Self(v.to_le_bytes())
u32_LE_from_primitive(v) == limbs_to_le_bytes(v)
\* src/src/types/u32.rs: impl From<LE> for Primitive: Self::from_le_bytes(v.0)
u32_LE_to_primitive(r) == limbs_from_le_bytes(r)
\* src/src/types/u32.rs: impl From<Primitive> for BE: Self(v.to_be_bytes())
u32_BE_from_primitive(v) == limbs_to_be_bytes(v)
\* src/src/types/u32.rs: impl From<BE> for Primitive: Self::from_be_bytes(v.0)
u32_BE_to_primitive(r) == limbs_from_be_bytes(r)

\* src/src/samples/i64.rs: impl From<Primitive> for LE: Self(v.to_le_bytes())
i64_LE_from_primitive(v) == limbs_to_le_bytes(v)
\* src/src/samples/i64.rs: impl From<LE> for Primitive: Self::from_le_bytes(v.0)
i64_LE_to_primitive(r) == limbs_from_le_bytes(r)
\* src/src/samples/i64.rs: impl From<Primitive> for BE: Self(v.to_be_bytes())
i64_BE_from_primitive(v) == limbs_to_be_bytes(v)
\* src/src/samples/i64.rs: impl From<BE> for Primitive: Self::from_be_bytes(v.0)
i64_BE_to_primitive(r) == limbs_from_be_bytes(r)

\* src/src/types/u64.rs: impl From<Primitive> for LE: Self(v.to_le_bytes())
u64_LE_from_primitive(v) == limbs_to_le_bytes(v)
\* src/src/types/u64.rs: impl From<LE> for Primitive: Self::from_le_bytes(v.0)
u64_LE_to_primitive(r) == limbs_from_le_bytes(r)
\* src/src/types/u64.rs: impl From<Primitive> for BE: Self(v.to_be_bytes())
u64_BE_from_primitive(v) == limbs_to_be_bytes(v)
\* src/src/types/u64.rs: impl From<BE> for Primitive: Self::from_be_bytes(v.0)
u64_BE_to_primitive(r) == limbs_from_be_bytes(r)

\* src/src/types/f32.rs: impl From<Primitive> for LE: Self(v.to_le_bytes())
f32_LE_from_primitive(v) == limbs_to_le_bytes(v)
\* src/src/types/f32.rs: impl From<LE> for Primitive: Self::from_le_bytes(v.0)
f32_LE_to_primitive(r) == limbs_from_le_bytes(r)
\* src/src/types/f32.rs: impl From<Primitive> for BE: Self(v.to_be_bytes())
f32_BE_from_primitive(v) == limbs_to_be_bytes(v)
\* src/src/types/f32.rs: impl From<BE> for Primitive: Self::from_be_bytes(v.0)
f32_BE_to_primitive(r) == limbs_from_be_bytes(r)

(***************************************************************************)
(* I24 (src/src/types/i24.rs): Repr = i32; v.inner() is the i32 holding    *)
(* the value; new_unchecked(x) is the I24 holding x.                       *)
(***************************************************************************)
\* impl From<Primitive> for LE3B: the three low bytes of v.inner().to_le_bytes()
I24_LE3B_from_primitive(v) ==
    LET repr_bytes == to_le_bytes(v, 4)
    IN  <<repr_bytes[1], repr_bytes[2], repr_bytes[3]>>
\* faulty variant of the decoder below: the bytes loaded into the low bits, no sign extension
I24_LE3B_to_primitive_unsigned(r) == ifrom_le_bytes(<<r[1], r[2], r[3], 0>>)
\* impl From<LE3B> for Primitive: Repr::from_le_bytes([0, v.0[0], v.0[1], v.0[2]]) >> u8::BITS
I24_LE3B_to_primitive(r) == Shr8(ifrom_le_bytes(<<0, r[1], r[2], r[3]>>))
\* impl From<Primitive> for BE3B: the three low bytes of v.inner().to_be_bytes()
I24_BE3B_from_primitive(v) ==
    LET repr_bytes == to_be_bytes(v, 4)
    IN  <<repr_bytes[2], repr_bytes[3], repr_bytes[4]>>
\* faulty variant of the decoder below: the bytes taken least significant first
I24_BE3B_to_primitive_le(r) == Shr8(ifrom_le_bytes(<<0, r[1], r[2], r[3]>>))
\* impl From<BE3B> for Primitive: Repr::from_be_bytes([v.0[0], v.0[1], v.0[2], 0]) >> u8::BITS
I24_BE3B_to_primitive(r) == Shr8(ifrom_be_bytes(<<r[1], r[2], r[3], 0>>))
\* impl From<Primitive> for LE4B: Self(v.inner().to_le_bytes()), all four bytes
I24_LE4B_from_primitive(v) == to_le_bytes(v, 4)
\* impl From<LE4B> for Primitive
I24_LE4B_to_primitive(r) == Shr8(ifrom_le_bytes(<<0, r[1], r[2], r[3]>>))
\* faulty variant: the unused byte is cleared instead of taking the top byte of Repr
I24_BE4B_from_primitive_cleared(v) == [to_be_bytes(v, 4) EXCEPT ![1] = 0]
\* impl From<Primitive> for BE4B: Self(v.inner().to_be_bytes()), all four bytes
I24_BE4B_from_primitive(v) == to_be_bytes(v, 4)
\* impl From<BE4B> for Primitive
I24_BE4B_to_primitive(r) == Shr8(ifrom_be_bytes(<<r[2], r[3], r[4], 0>>))

(***************************************************************************)
(* U24 (src/src/types/u24.rs): Repr = i32 as well.                         *)
(***************************************************************************)
U24_LE3B_from_primitive(v) ==
    LET repr_bytes == to_le_bytes(v, 4)
    IN  <<repr_bytes[1], repr_bytes[2], repr_bytes[3]>>
\* Repr::from_le_bytes([v.0[0], v.0[1], v.0[2], 0])
U24_LE3B_to_primitive(r) == ifrom_le_bytes(<<r[1], r[2], r[3], 0>>)
\* faulty variant of the encoder below: the three high bytes of the Repr
U24_BE3B_from_primitive_high(v) ==
    LET repr_bytes == to_be_bytes(v, 4)
    IN  <<repr_bytes[1], repr_bytes[2], repr_bytes[3]>>
U24_BE3B_from_primitive(v) ==
    LET repr_bytes == to_be_bytes(v, 4)
    IN  <<repr_bytes[2], repr_bytes[3], repr_bytes[4]>>
\* Repr::from_be_bytes([0, v.0[0], v.0[1], v.0[2]])
U24_BE3B_to_primitive(r) == ifrom_be_bytes(<<0, r[1], r[2], r[3]>>)
U24_LE4B_from_primitive(v) == to_le_bytes(v, 4)
U24_LE4B_to_primitive(r) == ifrom_le_bytes(<<r[1], r[2], r[3], 0>>)
U24_BE4B_from_primitive(v) == to_be_bytes(v, 4)
\* Repr::from_be_bytes([0, v.0[1], v.0[2], v.0[3]])
U24_BE4B_to_primitive(r) == ifrom_be_bytes(<<0, r[2], r[3], r[4]>>)

\* impl PartialEq for LE4B (i24.rs, u24.rs): self.0[0..3] == other.0[0..3]
LE4B_eq(a, b) == SubSeq(a, 1, 3) = SubSeq(b, 1, 3)
\* faulty variant: all four bytes are compared
BE4B_eq_all(a, b) == a = b
\* impl PartialEq for BE4B (i24.rs, u24.rs): self.0[1..4] == other.0[1..4]
BE4B_eq(a, b) == SubSeq(a, 2, 4) = SubSeq(b, 2, 4)

(***************************************************************************)
(* The raw-sample types by name: T::from(p), T::Primitive::from(r), the    *)
(* type's == and its size in bytes.                                        *)
(***************************************************************************)
Codecs ==
    {"i8_NE", "u8_NE", "i16_LE", "i16_BE", "u16_LE", "u16_BE",
     "i32_LE", "i32_BE", "u32_LE", "u32_BE", "i64_LE", "i64_BE",
     "u64_LE", "u64_BE", "f32_LE", "f32_BE",
     "I24_LE3B", "I24_BE3B", "I24_LE4B", "I24_BE4B",
     "U24_LE3B", "U24_BE3B", "U24_LE4B", "U24_BE4B"}

\* T::from(p): RawSample: From<Self::Primitive>
Encode(t, p) ==
    CASE t = "i8_NE" -> i8_NE_from_primitive(p)
      [] t = "u8_NE" -> u8_NE_from_primitive(p)
      [] t = "i16_LE" -> i16_LE_from_primitive(p)
      [] t = "i16_BE" -> i16_BE_from_primitive(p)
      [] t = "u16_LE" -> u16_LE_from_primitive(p)
      [] t = "u16_BE" -> u16_BE_from_primitive(p)
      [] t = "i32_LE" -> i32_LE_from_primitive(p)
      [] t = "i32_BE" -> i32_BE_from_primitive(p)
      [] t = "u32_LE" -> u32_LE_from_primitive(p)
      [] t = "u32_BE" -> u32_BE_from_primitive(p)
      [] t = "i64_LE" -> i64_LE_from_primitive(p)
      [] t = "i64_BE" -> i64_BE_from_primitive(p)
      [] t = "u64_LE" -> u64_LE_from_primitive(p)
      [] t = "u64_BE" -> u64_BE_from_primitive(p)
      [] t = "f32_LE" -> f32_LE_from_primitive(p)
      [] t = "f32_BE" -> f32_BE_from_primitive(p)
      [] t = "I24_LE3B" -> I24_LE3B_from_primitive(p)
      [] t = "I24_BE3B" -> I24_BE3B_from_primitive(p)
      [] t = "I24_LE4B" -> I24_LE4B_from_primitive(p)
      [] t = "I24_BE4B" -> I24_BE4B_from_primitive(p)
      [] t = "U24_LE3B" -> U24_LE3B_from_primitive(p)
      [] t = "U24_BE3B" -> U24_BE3B_from_primitive(p)
      [] t = "U24_LE4B" -> U24_LE4B_from_primitive(p)
      [] t = "U24_BE4B" -> U24_BE4B_from_primitive(p)

\* T::Primitive::from(r): RawSample where Self::Primitive: From<Self>
Decode(t, r) ==
    CASE t = "i8_NE" -> i8_NE_to_primitive(r)
      [] t = "u8_NE" -> u8_NE_to_primitive(r)
      [] t = "i16_LE" -> i16_LE_to_primitive(r)
      [] t = "i16_BE" -> i16_BE_to_primitive(r)
      [] t = "u16_LE" -> u16_LE_to_primitive(r)
      [] t = "u16_BE" -> u16_BE_to_primitive(r)
      [] t = "i32_LE" -> i32_LE_to_primitive(r)
      [] t = "i32_BE" -> i32_BE_to_primitive(r)
      [] t = "u32_LE" -> u32_LE_to_primitive(r)
      [] t = "u32_BE" -> u32_BE_to_primitive(r)
      [] t = "i64_LE" -> i64_LE_to_primitive(r)
      [] t = "i64_BE" -> i64_BE_to_primitive(r)
      [] t = "u64_LE" -> u64_LE_to_primitive(r)
      [] t = "u64_BE" -> u64_BE_to_primitive(r)
      [] t = "f32_LE" -> f32_LE_to_primitive(r)
      [] t = "f32_BE" -> f32_BE_to_primitive(r)
      [] t = "I24_LE3B" -> I24_LE3B_to_primitive(r)
      [] t = "I24_BE3B" -> I24_BE3B_to_primitive(r)
      [] t = "I24_LE4B" -> I24_LE4B_to_primitive(r)
      [] t = "I24_BE4B" -> I24_BE4B_to_primitive(r)
      [] t = "U24_LE3B" -> U24_LE3B_to_primitive(r)
      [] t = "U24_BE3B" -> U24_BE3B_to_primitive(r)
      [] t = "U24_LE4B" -> U24_LE4B_to_primitive(r)
      [] t = "U24_BE4B" -> U24_BE4B_to_primitive(r)

\* the == of the raw-sample type: derived (all bytes) except for the 4-byte packed types
RawEq(t, a, b) ==
    CASE t \in {"I24_LE4B", "U24_LE4B"} -> LE4B_eq(a, b)
      [] t \in {"I24_BE4B", "U24_BE4B"} -> BE4B_eq(a, b)
      [] OTHER -> a = b

\* mem::size_of::<T>(): the N of the type's [u8; N]
SampleSize(t) ==
    CASE t \in {"i8_NE", "u8_NE"} -> 1
      [] t \in {"i16_LE", "i16_BE", "u16_LE", "u16_BE"} -> 2
      [] t \in {"I24_LE3B", "I24_BE3B", "U24_LE3B", "U24_BE3B"} -> 3
      [] t \in {"i64_LE", "i64_BE", "u64_LE", "u64_BE"} -> 8
      [] OTHER -> 4

\* pub const DEFAULT: Primitive = Primitive::EQUILIBRIUM (dasp_sample::Sample): 0 for
\* the signed integers and f32 (bit pattern 0), 1 << (BITS - 1) for the unsigned ones
DEFAULT(t) ==
    CASE t = "u8_NE" -> 128
      [] t \in {"u16_LE", "u16_BE"} -> 32768
      [] t \in {"U24_LE3B", "U24_BE3B", "U24_LE4B", "U24_BE4B"} -> 8388608
      [] t \in {"u32_LE", "u32_BE"} -> <<32768, 0>>
      [] t \in {"u64_LE", "u64_BE"} -> <<32768, 0, 0, 0>>
      [] t \in {"f32_LE", "f32_BE"} -> <<0, 0>>
      [] t \in {"i64_LE", "i64_BE"} -> <<0, 0, 0, 0>>
      [] OTHER -> 0

\* impl Default for T: Self::from(DEFAULT)
Default(t) == Encode(t, DEFAULT(t))

(***************************************************************************)
(* Inputs of the codec runs: every value of the 8-bit types, boundary and  *)
(* byte-distinct values of the wider ones.                                 *)
(***************************************************************************)
MinI32 == -2147483647 - 1
LimbSamples == {0, 1, 258, 32768, 65535}
ByteSamples == {0, 1, 127, 128, 255}
WideByteSamples == {1, 200}

PrimSamples(t) ==
    CASE t = "i8_NE" -> -128..127
      [] t = "u8_NE" -> 0..255
      [] t \in {"i16_LE", "i16_BE"} -> {-32768, -32767, -258, -1, 0, 1, 258, 32767}
      [] t \in {"u16_LE", "u16_BE"} -> {0, 1, 258, 32768, 65535}
      [] t \in {"i32_LE", "i32_BE"} ->
            {MinI32, -16909060, -1, 0, 1, 16909060, 2147483647}
      [] t \in {"I24_LE3B", "I24_BE3B", "I24_LE4B", "I24_BE4B"} ->
            {-8388608, -8388607, -66051, -1, 0, 1, 66051, 8388607}
      [] t \in {"U24_LE3B", "U24_BE3B", "U24_LE4B", "U24_BE4B"} ->
            {0, 1, 66051, 8388608, 16777215}
      [] t \in {"u32_LE", "u32_BE", "f32_LE", "f32_BE"} -> [1..2 -> LimbSamples]
      [] t \in {"i64_LE", "i64_BE", "u64_LE", "u64_BE"} -> [1..4 -> LimbSamples]

RawSamples(t) ==
    CASE SampleSize(t) = 1 -> [1..1 -> Byte]
      [] SampleSize(t) = 8 -> [1..8 -> WideByteSamples]
      [] OTHER -> [1..SampleSize(t) -> ByteSamples]

(***************************************************************************)
(* The views when no buffer run is under way, and the codec run when no    *)
(* codec run is under way.                                                 *)
(***************************************************************************)
NoWrite == [op |-> "none"]
NotRead == [done |-> FALSE]
NoAccess == [op |-> "none"]
NoReads == [samples |-> NotRead, samples_interleaved |-> NotRead,
            samples_separated |-> NotRead, access |-> NoAccess]

NoSource == [pc |-> "none"]

BufIdle ==
    /\ source = NoSource
    /\ fmt = "i16_LE"
    /\ iview = [samples |-> <<>>, frame_count |-> 0, channel_count |-> 0]
    /\ sview = [channels |-> <<>>, frame_count |-> 0]
    /\ last = NoWrite
    /\ out = NoReads

CodecIdle ==
    /\ c_codec = "i8_NE"
    /\ c_start = 0
    /\ c_val = 0
    /\ c_phase = "idle"

(***************************************************************************)
(* Codec runs: a primitive is encoded and decoded again, a raw sample is   *)
(* decoded and encoded again.                                              *)
(***************************************************************************)
CodecInit ==
    /\ c_codec \in Codecs
    /\ c_phase \in {"prim", "raw", "type"}
    /\ c_start \in CASE c_phase = "prim" -> PrimSamples(c_codec)
                    [] c_phase = "raw" -> RawSamples(c_codec)
                    [] OTHER -> {<<>>}
    /\ c_val = c_start
    /\ BufIdle

\* T::from(primitive)
CodecEncode ==
    /\ c_phase \in {"prim", "raw_dec"}
    /\ c_val' = Encode(c_codec, c_val)
    /\ c_phase' = IF c_phase = "prim" THEN "prim_enc" ELSE "raw_dec_enc"
    /\ UNCHANGED <<c_codec, c_start>>
    /\ UNCHANGED bufVars

\* T::Primitive::from(raw)
CodecDecode ==
    /\ c_phase \in {"raw", "prim_enc", "default"}
    /\ c_val' = Decode(c_codec, c_val)
    /\ c_phase' = CASE c_phase = "raw" -> "raw_dec"
                     [] c_phase = "prim_enc" -> "prim_enc_dec"
                     [] OTHER -> "default_dec"
    /\ UNCHANGED <<c_codec, c_start>>
    /\ UNCHANGED bufVars

\* T::default()
CodecDefault ==
    /\ c_phase = "type"
    /\ c_val' = Default(c_codec)
    /\ c_phase' = "default"
    /\ UNCHANGED <<c_codec, c_start>>
    /\ UNCHANGED bufVars

Packed4B == {"I24_LE4B", "I24_BE4B", "U24_LE4B", "U24_BE4B"}

\* the position of the unused byte of a 4-byte packed type
UnusedByte(t) == IF t \in {"I24_LE4B", "U24_LE4B"} THEN 4 ELSE 1

\* raw == other on a 4-byte packed type, and both converted to the primitive;
\* other takes any unused byte and differs from raw in at most one more byte
CodecCompare ==
    /\ c_phase = "raw"
    /\ c_codec \in Packed4B
    /\ \E u \in ByteSamples, i \in 1..4, b \in ByteSamples :
          LET other == [[c_start EXCEPT ![i] = b] EXCEPT ![UnusedByte(c_codec)] = u]
          IN  c_val' = [other |-> other,
                        eq |-> RawEq(c_codec, c_start, other),
                        primitive |-> Decode(c_codec, c_start),
                        other_primitive |-> Decode(c_codec, other)]
    /\ c_phase' = "raw_cmp"
    /\ UNCHANGED <<c_codec, c_start>>
    /\ UNCHANGED bufVars

CodecNext == CodecEncode \/ CodecDecode \/ CodecCompare \/ CodecDefault

SpecCodec == CodecInit /\ [][CodecNext]_vars

(***************************************************************************)
(* C1: for every raw-sample type, decode(encode(p)) = p for every          *)
(* primitive p, and encode(decode(r)) = r for every raw sample r, under    *)
(* the type's own equality (which ignores the unused byte of the 4-byte    *)
(* packed 24-bit types).                                                   *)
(***************************************************************************)
C1_RoundTrip ==
    /\ c_phase = "prim_enc_dec" => c_val = c_start
    /\ c_phase = "raw_dec_enc" => RawEq(c_codec, c_val, c_start)

\* a packed raw sample came back with another unused byte and still compares equal
C1_Witness ==
    /\ c_phase = "raw_dec_enc"
    /\ c_codec = "I24_LE4B"
    /\ c_val # c_start
    /\ c_start = <<0, 0, 128, 1>>

(***************************************************************************)
(* Buffer views.  An interleaved view is the record                        *)
(* [samples, frame_count, channel_count], a separated view the record      *)
(* [channels, frame_count]; indices are 0-based as in the source, so       *)
(* element i of a slice s is s[i + 1].  t is the raw-sample type T.        *)
(*                                                                         *)
(* Option values: Some(x) and None.  One step of an iterator returns       *)
(* [item, st, panic]: the Option it yields, the iterator afterwards, and   *)
(* whether the step panicked instead of returning.                         *)
(***************************************************************************)
Some(x) == [some |-> TRUE, val |-> x]
None == [some |-> FALSE]

Yield(x, st) == [item |-> Some(x), st |-> st, panic |-> FALSE]
End(st) == [item |-> None, st |-> st, panic |-> FALSE]
Panic(st) == [item |-> None, st |-> st, panic |-> TRUE]

\* a call that returns self, and a call that panics instead of returning
Ok(self) == [self |-> self, panic |-> FALSE]
Panicked(self) == [self |-> self, panic |-> TRUE]

\* SampleAddress { channel, frame }
SampleAddress(c, f) == [channel |-> c, frame |-> f]

\* InterleavedBuffer::offset
InterleavedBuffer_offset(self, address) ==
    self.channel_count * address.frame + address.channel

\* InterleavedBuffer::frame_range: [start, end), as the pair <<start, end>>
InterleavedBuffer_frame_range(self, frame_index) ==
    LET start == frame_index * self.channel_count
    IN  <<start, start + self.channel_count>>

\* SeparatedBuffer::channel_count: self.channels.len()
SeparatedBuffer_channel_count(self) == Len(self.channels)

(***************************************************************************)
(* samples(): interleaved.  addresses is (0..frame_count) zipped with the  *)
(* cycled (0..channel_count); Zip::next asks the frame range first and     *)
(* the cycle only when the range gave an item; samples is slice::Iter.     *)
(***************************************************************************)
\* InterleavedSamples::new, called by InterleavedBuffer::samples
InterleavedSamples_new(samples, frame_count, channel_count) ==
    [addr_frame |-> 0, addr_frame_end |-> frame_count,
     addr_channel |-> 0, addr_channel_end |-> channel_count,
     samples |-> samples, pos |-> 0]

\* Iterator for InterleavedSamples: both halves of the tuple are advanced, then matched
InterleavedSamples_next(t, st) ==
    LET a == st.addr_frame < st.addr_frame_end
        b == a /\ st.addr_channel_end > 0
        s == st.pos < Len(st.samples)
        st1 == [st EXCEPT !.addr_frame = IF a THEN @ + 1 ELSE @,
                          !.addr_channel = IF b THEN (@ + 1) % st.addr_channel_end ELSE @,
                          !.pos = IF s THEN @ + 1 ELSE @]
    IN  IF b /\ s
        THEN Yield(<<SampleAddress(st.addr_channel, st.addr_frame),
                     Decode(t, st.samples[st.pos + 1])>>, st1)
        ELSE End(st1)

\* InterleavedBuffer::samples_interleaved: self.samples.iter()
InterleavedSamplesInterleaved_new(self) == [samples |-> self.samples, pos |-> 0]

\* Iterator for InterleavedSamplesInterleaved
InterleavedSamplesInterleaved_next(t, st) ==
    IF st.pos < Len(st.samples)
    THEN Yield(Decode(t, st.samples[st.pos + 1]), [st EXCEPT !.pos = @ + 1])
    ELSE End(st)

\* InterleavedBuffer::samples_separated
InterleavedSamplesSeparated_new(self) ==
    [samples |-> self.samples, channel_count |-> self.channel_count,
     channel_index |-> 0, sample_index |-> 0]

RECURSIVE InterleavedSamplesSeparated_next_norestart(_, _)
\* faulty variant: the next channel restarts at sample 0 instead of at its own first sample
InterleavedSamplesSeparated_next_norestart(t, st) ==
    IF st.channel_index < st.channel_count
    THEN IF st.sample_index < Len(st.samples)
         THEN Yield(Decode(t, st.samples[st.sample_index + 1]),
                    [st EXCEPT !.sample_index = @ + st.channel_count])
         ELSE InterleavedSamplesSeparated_next_norestart(t,
                    [st EXCEPT !.channel_index = @ + 1, !.sample_index = 0])
    ELSE End(st)

RECURSIVE InterleavedSamplesSeparated_next(_, _)
\* Iterator for InterleavedSamplesSeparated: the while loop is the recursion
InterleavedSamplesSeparated_next(t, st) ==
    IF st.channel_index < st.channel_count
    THEN IF st.sample_index < Len(st.samples)
         THEN Yield(Decode(t, st.samples[st.sample_index + 1]),
                    [st EXCEPT !.sample_index = @ + st.channel_count])
         ELSE InterleavedSamplesSeparated_next(t,
                    [st EXCEPT !.channel_index = @ + 1,
                               !.sample_index = st.channel_index + 1])
    ELSE End(st)

(***************************************************************************)
(* The same three traversals of a separated view.                          *)
(***************************************************************************)
\* SeparatedBuffer::samples
SeparatedSamples_new(self) ==
    [channels |-> self.channels, address |-> SampleAddress(0, 0)]

RECURSIVE SeparatedSamples_next(_, _)
\* Iterator for SeparatedSamples
SeparatedSamples_next(t, st) ==
    IF st.channels # <<>>
    THEN LET head == Head(st.channels)
         IN  IF st.address.frame < Len(head)
             THEN Yield(<<st.address, Decode(t, head[st.address.frame + 1])>>,
                        [st EXCEPT !.address.frame = @ + 1])
             ELSE SeparatedSamples_next(t,
                        [channels |-> Tail(st.channels),
                         address |-> SampleAddress(st.address.channel + 1, 0)])
    ELSE End(st)

\* SeparatedBuffer::samples_interleaved
SeparatedSamplesInterleaved_new(self) ==
    [channels |-> self.channels, frame_count |-> self.frame_count,
     frame_index |-> 0, channel_index |-> 0]

\* Iterator for SeparatedSamplesInterleaved; the indexing panics out of range
SeparatedSamplesInterleaved_next(t, st) ==
    IF st.frame_index < st.frame_count
    THEN IF \/ st.channel_index >= Len(st.channels)
            \/ st.frame_index >= Len(st.channels[st.channel_index + 1])
         THEN Panic(st)
         ELSE LET sample == Decode(t, st.channels[st.channel_index + 1][st.frame_index + 1])
                  ci == st.channel_index + 1
              IN  IF ci = Len(st.channels)
                  THEN Yield(sample, [st EXCEPT !.channel_index = 0,
                                                !.frame_index = @ + 1])
                  ELSE Yield(sample, [st EXCEPT !.channel_index = ci])
    ELSE End(st)

\* SeparatedBuffer::samples_separated
SeparatedSamplesSeparated_new(self) == [channels |-> self.channels, frame_index |-> 0]

RECURSIVE SeparatedSamplesSeparated_next(_, _)
\* Iterator for SeparatedSamplesSeparated
SeparatedSamplesSeparated_next(t, st) ==
    IF st.channels # <<>>
    THEN LET head == Head(st.channels)
         IN  IF st.frame_index < Len(head)
             THEN Yield(Decode(t, head[st.frame_index + 1]),
                        [st EXCEPT !.frame_index = @ + 1])
             ELSE SeparatedSamplesSeparated_next(t,
                        [channels |-> Tail(st.channels), frame_index |-> 0])
    ELSE End(st)

\* InterleavedBuffer::channel: the index is not checked
InterleavedBuffer_channel(self, index) ==
    Ok([samples |-> self.samples, channel_count |-> self.channel_count,
        channel_index |-> index])

\* faulty variant: the samples of the channel are taken to be consecutive
InterleavedChannel_into_iter_unstepped(self) ==
    IF self.channel_count = 0
    THEN Panicked([samples |-> self.samples, pos |-> 0, step |-> 0])
    ELSE Ok([samples |-> self.samples, pos |-> self.channel_index, step |-> 1])

\* IntoIterator for InterleavedChannel: iter().skip(channel_index)
\* .step_by(channel_count); step_by(0) panics
InterleavedChannel_into_iter(self) ==
    IF self.channel_count = 0
    THEN Panicked([samples |-> self.samples, pos |-> 0, step |-> 0])
    ELSE Ok([samples |-> self.samples, pos |-> self.channel_index,
             step |-> self.channel_count])

\* Iterator for InterleavedChannelSamples
InterleavedChannelSamples_next(t, st) ==
    IF st.pos < Len(st.samples)
    THEN Yield(Decode(t, st.samples[st.pos + 1]), [st EXCEPT !.pos = @ + st.step])
    ELSE End(st)

\* SampleSlice::new
SampleSlice_new(samples) == [samples |-> samples]

\* IntoIterator for SampleSlice
SampleSlice_into_iter(self) == Ok([samples |-> self.samples, pos |-> 0])

\* Iterator for Samples
Samples_next(t, st) ==
    IF st.pos < Len(st.samples)
    THEN Yield(Decode(t, st.samples[st.pos + 1]), [st EXCEPT !.pos = @ + 1])
    ELSE End(st)

\* SeparatedBuffer::channel: self.channels[index] panics out of range
SeparatedBuffer_channel(self, index) ==
    IF index >= Len(self.channels)
    THEN Panicked(SampleSlice_new(<<>>))
    ELSE Ok(SampleSlice_new(self.channels[index + 1]))

\* InterleavedBuffer::frame: self.samples[range] panics past the end
InterleavedBuffer_frame(self, index) ==
    LET range == InterleavedBuffer_frame_range(self, index)
    IN  IF range[2] > Len(self.samples)
        THEN Panicked(SampleSlice_new(<<>>))
        ELSE Ok(SampleSlice_new(SubSeq(self.samples, range[1] + 1, range[2])))

\* SeparatedBuffer::frame: the index is not checked
SeparatedBuffer_frame(self, index) ==
    Ok([channels |-> self.channels, frame_index |-> index])

\* IntoIterator for SeparatedFrame
SeparatedFrame_into_iter(self) ==
    Ok([channels |-> self.channels, pos |-> 0, index |-> self.frame_index])

\* Iterator for SeparatedFrameSamples: samples[self.index] panics out of range
SeparatedFrameSamples_next(t, st) ==
    IF st.pos < Len(st.channels)
    THEN LET samples == st.channels[st.pos + 1]
         IN  IF st.index >= Len(samples)
             THEN Panic(st)
             ELSE Yield(Decode(t, samples[st.index + 1]), [st EXCEPT !.pos = @ + 1])
    ELSE End(st)

\* a slice element: samples[index] panics out of range
Indexed(samples, index) ==
    IF index >= Len(samples)
    THEN [panic |-> TRUE, raw |-> <<>>]
    ELSE [panic |-> FALSE, raw |-> samples[index + 1]]

\* Index<FrameIndex> for InterleavedChannel
InterleavedChannel_index(self, frame_index) ==
    Indexed(self.samples, self.channel_index * self.channel_count + frame_index)

\* Index<ChannelIndex> for SeparatedFrame
SeparatedFrame_index(self, channel_index) ==
    IF channel_index >= Len(self.channels)
    THEN [panic |-> TRUE, raw |-> <<>>]
    ELSE Indexed(self.channels[channel_index + 1], self.frame_index)

\* Index<SampleAddress> for InterleavedBuffer, with the panic of the slice
InterleavedBuffer_index_at(self, address) ==
    Indexed(self.samples, InterleavedBuffer_offset(self, address))

\* Index<SampleAddress> for SeparatedBuffer, with the panics of the slices
SeparatedBuffer_index_at(self, address) ==
    IF address.channel >= Len(self.channels)
    THEN [panic |-> TRUE, raw |-> <<>>]
    ELSE Indexed(self.channels[address.channel + 1], address.frame)

\* Index<SampleIndex> for SampleSlice
SampleSlice_index(self, index) == Indexed(self.samples, index)

\* InterleavedBuffer::channels
InterleavedChannels_new(self) ==
    [samples |-> self.samples,
     channel_indices |-> [start |-> 0, end |-> self.channel_count]]

\* Iterator for InterleavedChannels
InterleavedChannels_next(t, st) ==
    IF st.channel_indices.start < st.channel_indices.end
    THEN Yield([samples |-> st.samples, channel_count |-> st.channel_indices.end,
                channel_index |-> st.channel_indices.start],
               [st EXCEPT !.channel_indices.start = @ + 1])
    ELSE End(st)

\* SeparatedBuffer::channels
SeparatedChannels_new(self) == [channels |-> self.channels, pos |-> 0]

\* Iterator for SeparatedChannels
SeparatedChannels_next(t, st) ==
    IF st.pos < Len(st.channels)
    THEN Yield(SampleSlice_new(st.channels[st.pos + 1]), [st EXCEPT !.pos = @ + 1])
    ELSE End(st)

\* InterleavedBuffer::frames: self.samples.chunks_exact(channel_count), which
\* panics on a chunk size of 0
InterleavedFrames_new(self) ==
    IF self.channel_count = 0
    THEN Panicked([samples |-> self.samples, pos |-> 0, chunk_size |-> 0])
    ELSE Ok([samples |-> self.samples, pos |-> 0, chunk_size |-> self.channel_count])

\* faulty variant: the chunks overlap, each starting one sample after the last
InterleavedFrames_next_sliding(t, st) ==
    IF st.pos + st.chunk_size <= Len(st.samples)
    THEN Yield(SampleSlice_new(SubSeq(st.samples, st.pos + 1, st.pos + st.chunk_size)),
               [st EXCEPT !.pos = @ + 1])
    ELSE End(st)

\* Iterator for InterleavedFrames: the next whole chunk
InterleavedFrames_next(t, st) ==
    IF st.pos + st.chunk_size <= Len(st.samples)
    THEN Yield(SampleSlice_new(SubSeq(st.samples, st.pos + 1, st.pos + st.chunk_size)),
               [st EXCEPT !.pos = @ + st.chunk_size])
    ELSE End(st)

\* SeparatedBuffer::frames
SeparatedFrames_new(self) ==
    Ok([channels |-> self.channels, indices |-> [start |-> 0, end |-> self.frame_count]])

\* Iterator for SeparatedFrames
SeparatedFrames_next(t, st) ==
    IF st.indices.start < st.indices.end
    THEN Yield([channels |-> st.channels, frame_index |-> st.indices.start],
               [st EXCEPT !.indices.start = @ + 1])
    ELSE End(st)

(***************************************************************************)
(* Running an iterator to its end, as a for loop or collect() does: the    *)
(* items yielded before the first None, or before a panic.                 *)
(***************************************************************************)
IterNext(kind, t, st) ==
    CASE kind = "InterleavedSamples" -> InterleavedSamples_next(t, st)
      [] kind = "InterleavedSamplesInterleaved" -> InterleavedSamplesInterleaved_next(t, st)
      [] kind = "InterleavedSamplesSeparated" -> InterleavedSamplesSeparated_next(t, st)
      [] kind = "SeparatedSamples" -> SeparatedSamples_next(t, st)
      [] kind = "SeparatedSamplesInterleaved" -> SeparatedSamplesInterleaved_next(t, st)
      [] kind = "SeparatedSamplesSeparated" -> SeparatedSamplesSeparated_next(t, st)
      [] kind = "InterleavedChannelSamples" -> InterleavedChannelSamples_next(t, st)
      [] kind = "Samples" -> Samples_next(t, st)
      [] kind = "SeparatedFrameSamples" -> SeparatedFrameSamples_next(t, st)
      [] kind = "InterleavedChannels" -> InterleavedChannels_next(t, st)
      [] kind = "SeparatedChannels" -> SeparatedChannels_next(t, st)
      [] kind = "InterleavedFrames" -> InterleavedFrames_next(t, st)
      [] kind = "SeparatedFrames" -> SeparatedFrames_next(t, st)

RECURSIVE Drain(_, _, _, _)
Drain(kind, t, st, acc) ==
    LET r == IterNext(kind, t, st)
    IN  IF r.panic THEN [items |-> acc, panic |-> TRUE]
        ELSE IF ~r.item.some THEN [items |-> acc, panic |-> FALSE]
        ELSE Drain(kind, t, r.st, Append(acc, r.item.val))

Collect(kind, t, st) == Drain(kind, t, st, <<>>)

(***************************************************************************)
(* Writes.  A write returns [self, panic]: the view afterwards and whether *)
(* the call panicked instead of returning.                                 *)
(***************************************************************************)
\* faulty variant: the zip is not cut at the shorter side; missing values are written as 0
ZipWrite_padded(t, s, pos, vals) ==
    [i \in 1..Len(s) |->
        IF \E k \in 1..Len(pos) : pos[k] + 1 = i
        THEN LET k == CHOOSE k \in 1..Len(pos) : pos[k] + 1 = i
             IN  Encode(t, IF k <= Len(vals) THEN vals[k] ELSE 0)
        ELSE s[i]]

\* slots.zip(values).for_each(|(sample_out, sample_in)| *sample_out = sample_in),
\* values already mapped through T::Primitive::from and T::from; pos are the
\* offsets in s of the slots the left iterator yields, in order.
ZipWrite(t, s, pos, vals) ==
    [i \in 1..Len(s) |->
        IF \E k \in 1..Min(Len(pos), Len(vals)) : pos[k] + 1 = i
        THEN Encode(t, vals[CHOOSE k \in 1..Min(Len(pos), Len(vals)) : pos[k] + 1 = i])
        ELSE s[i]]

\* the offsets start, start + 1, ..., start + n - 1
RangePositions(start, n) == [k \in 1..n |-> start + k - 1]

\* iter_mut().skip(index).step_by(step): the offsets index, index + step, ... below len
StepPositions(index, step, len) ==
    LET n == IF index >= len THEN 0 ELSE (len - index - 1) \div step + 1
    IN  [k \in 1..n |-> index + (k - 1) * step]

\* Itertools::chunks(size) of a sequence: consecutive runs of size items, the last
\* one possibly shorter (size > 0; chunks(0) panics and is handled by the callers)
Chunks(s, size) ==
    [j \in 1..((Len(s) + size - 1) \div size) |->
        SubSeq(s, (j - 1) * size + 1, Min(j * size, Len(s)))]

\* InterleavedBufferMut::frame_range
InterleavedBufferMut_frame_range(self, frame_index) ==
    LET start == frame_index * self.channel_count
    IN  <<start, start + self.channel_count>>

\* InterleavedBufferMut::write_frame: self.samples[range] panics past the end
InterleavedBufferMut_write_frame(t, self, index, frame) ==
    LET range == InterleavedBufferMut_frame_range(self, index)
    IN  IF range[2] > Len(self.samples)
        THEN Panicked(self)
        ELSE Ok([self EXCEPT !.samples =
                    ZipWrite(t, @, RangePositions(range[1], range[2] - range[1]), frame)])

RECURSIVE WriteChunks(_, _, _, _, _)
\* the for loop of InterleavedBufferMut::write_frames from its i-th turn on
WriteChunks(t, s, chunk_size, frames, i) ==
    IF i >= Min(Len(s) \div chunk_size, Len(frames))
    THEN s
    ELSE WriteChunks(t, ZipWrite(t, s, RangePositions(i * chunk_size, chunk_size),
                                 frames[i + 1]),
                     chunk_size, frames, i + 1)

\* InterleavedBufferMut::write_frames: chunks_exact_mut(0) panics
InterleavedBufferMut_write_frames(t, self, frames) ==
    IF self.channel_count = 0
    THEN Panicked(self)
    ELSE Ok([self EXCEPT !.samples = WriteChunks(t, @, self.channel_count, frames, 0)])

\* InterleavedBufferMut::write_channel: step_by(0) panics; index is not checked
InterleavedBufferMut_write_channel(t, self, index, channel) ==
    IF self.channel_count = 0
    THEN Panicked(self)
    ELSE Ok([self EXCEPT !.samples =
                ZipWrite(t, @, StepPositions(index, self.channel_count, Len(@)), channel)])

RECURSIVE InterleavedWriteChannelsFrom(_, _, _, _)
\* the for_each of InterleavedBufferMut::write_channels from the j-th channel on
InterleavedWriteChannelsFrom(t, self, channels, j) ==
    IF j >= Len(channels)
    THEN Ok(self)
    ELSE LET r == InterleavedBufferMut_write_channel(t, self, j, channels[j + 1])
         IN  IF r.panic THEN r
             ELSE InterleavedWriteChannelsFrom(t, r.self, channels, j + 1)

\* InterleavedBufferMut::write_channels
InterleavedBufferMut_write_channels(t, self, channels) ==
    InterleavedWriteChannelsFrom(t, self, channels, 0)

\* InterleavedBufferMut::write_samples_interleaved
InterleavedBufferMut_write_samples_interleaved(t, self, samples) ==
    Ok([self EXCEPT !.samples = ZipWrite(t, @, RangePositions(0, Len(@)), samples)])

\* InterleavedBufferMut::write_samples_separated: chunks(0) panics
InterleavedBufferMut_write_samples_separated(t, self, samples) ==
    IF self.frame_count = 0
    THEN Panicked(self)
    ELSE InterleavedBufferMut_write_channels(t, self, Chunks(samples, self.frame_count))

\* SeparatedBufferMut::write_frame: the map closure indexes channel[index] before
\* the zip asks the frame for a value, so an index past the end panics on the
\* first channel, before anything is written
SeparatedBufferMut_write_frame(t, self, index, frame) ==
    IF self.channels # <<>> /\ index >= Len(self.channels[1])
    THEN Panicked(self)
    ELSE Ok([self EXCEPT !.channels =
                [c \in 1..Len(@) |->
                    IF c <= Len(frame)
                    THEN [@[c] EXCEPT ![index + 1] = Encode(t, frame[c])]
                    ELSE @[c]]])

RECURSIVE SeparatedWriteFramesFrom(_, _, _, _)
\* the for_each of SeparatedBufferMut::write_frames from frame i on
SeparatedWriteFramesFrom(t, self, frames, i) ==
    IF i >= Min(self.frame_count, Len(frames))
    THEN Ok(self)
    ELSE LET r == SeparatedBufferMut_write_frame(t, self, i, frames[i + 1])
         IN  IF r.panic THEN r
             ELSE SeparatedWriteFramesFrom(t, r.self, frames, i + 1)

\* SeparatedBufferMut::write_frames
SeparatedBufferMut_write_frames(t, self, frames) ==
    SeparatedWriteFramesFrom(t, self, frames, 0)

\* SeparatedBufferMut::write_channel: self.channels[index] panics out of range
SeparatedBufferMut_write_channel(t, self, index, channel) ==
    IF index >= Len(self.channels)
    THEN Panicked(self)
    ELSE Ok([self EXCEPT !.channels[index + 1] =
                ZipWrite(t, @, RangePositions(0, Len(@)), channel)])

\* SeparatedBufferMut::write_channels
SeparatedBufferMut_write_channels(t, self, channels) ==
    Ok([self EXCEPT !.channels =
            [c \in 1..Len(@) |->
                IF c <= Len(channels)
                THEN ZipWrite(t, @[c], RangePositions(0, Len(@[c])), channels[c])
                ELSE @[c]]])

\* SeparatedBufferMut::write_samples_interleaved: chunks(0) panics
SeparatedBufferMut_write_samples_interleaved(t, self, samples) ==
    IF Len(self.channels) = 0
    THEN Panicked(self)
    ELSE SeparatedBufferMut_write_frames(t, self, Chunks(samples, Len(self.channels)))

\* SeparatedBufferMut::write_samples_separated: chunks(0) panics
SeparatedBufferMut_write_samples_separated(t, self, samples) ==
    IF self.frame_count = 0
    THEN Panicked(self)
    ELSE SeparatedBufferMut_write_channels(t, self, Chunks(samples, self.frame_count))

\* InterleavedBufferMut::offset
InterleavedBufferMut_offset(self, address) ==
    self.channel_count * address.frame + address.channel

\* InterleavedBufferMut::write_sample: only the linear offset is checked, by the
\* slice indexing
InterleavedBufferMut_write_sample(t, self, address, sample) ==
    LET offset == InterleavedBufferMut_offset(self, address)
    IN  IF offset >= Len(self.samples)
        THEN Panicked(self)
        ELSE Ok([self EXCEPT !.samples[offset + 1] = Encode(t, sample)])

\* SeparatedBufferMut::write_sample: self.channels[channel][frame] checks both
SeparatedBufferMut_write_sample(t, self, address, sample) ==
    IF address.channel >= Len(self.channels)
    THEN Panicked(self)
    ELSE IF address.frame >= Len(self.channels[address.channel + 1])
    THEN Panicked(self)
    ELSE Ok([self EXCEPT !.channels[address.channel + 1][address.frame + 1] =
                Encode(t, sample)])

(***************************************************************************)
(* Buffer runs.  One grid of F frames x C channels is held by an           *)
(* interleaved view (iview) and by a separated view (sview) at once; every *)
(* operation is applied to both.  The grid starts with a known pattern,    *)
(* takes at most one write, and is then read by the three traversals.      *)
(***************************************************************************)
BufFormats == {"i16_LE", "I24_BE4B"}
Patterns == {"scenario", "negative"}
Bases == {100, -200}

\* "scenario" numbers the grid 1, 2, ... in frame-major order (spec.md section 9)
PatternValue(pat, F, C, c, f) ==
    IF pat = "scenario" THEN C * f + c + 1 ELSE -(F * c + f + 1) - 250

\* the bytes the caller's memory holds for a primitive; the unused byte of the
\* 4-byte packed formats is whatever the caller left there
Stored(t, p) ==
    CASE t \in {"I24_BE4B", "U24_BE4B"} -> [Encode(t, p) EXCEPT ![1] = 85]
      [] t \in {"I24_LE4B", "U24_LE4B"} -> [Encode(t, p) EXCEPT ![4] = 85]
      [] OTHER -> Encode(t, p)

Fill(n, base) == [k \in 1..n |-> base + k - 1]

Nested(n, m, base, ragged) ==
    [i \in 1..n |->
        Fill(IF ragged /\ i % 2 = 0 /\ m > 0 THEN m - 1 ELSE m, base + 10 * (i - 1))]

\* InterleavedBuffer(Mut)::new and SeparatedBuffer(Mut)::new over the same grid
Init ==
    /\ CodecIdle
    /\ source = NoSource
    /\ fmt \in BufFormats
    /\ \E F \in 0..MaxF, C \in 0..MaxC, pat \in Patterns :
          /\ iview = [samples |->
                         [k \in 1..(F * C) |->
                             Stored(fmt, PatternValue(pat, F, C, (k - 1) % C, (k - 1) \div C))],
                      frame_count |-> F, channel_count |-> C]
          /\ sview = [channels |->
                         [c \in 1..C |->
                             [f \in 1..F |-> Stored(fmt, PatternValue(pat, F, C, c - 1, f - 1))]],
                      frame_count |-> F]
    /\ last = NoWrite
    /\ out = NoReads

\* a panicked write ends the run
CanRead == IF last.op = "none" THEN TRUE ELSE ~last.ipanic /\ ~last.spanic

Traversal(ikind, ist, skind, sst) ==
    [done |-> TRUE, i |-> Collect(ikind, fmt, ist), s |-> Collect(skind, fmt, sst)]

\* buffer.samples() advanced to its end
ReadSamples ==
    /\ CanRead
    /\ ~out.samples.done
    /\ out' = [out EXCEPT !.samples =
                  Traversal("InterleavedSamples",
                            InterleavedSamples_new(iview.samples, iview.frame_count,
                                                   iview.channel_count),
                            "SeparatedSamples", SeparatedSamples_new(sview))]
    /\ UNCHANGED <<fmt, iview, sview, last, codecVars, source>>

\* buffer.samples_interleaved() advanced to its end
ReadSamplesInterleaved ==
    /\ CanRead
    /\ ~out.samples_interleaved.done
    /\ out' = [out EXCEPT !.samples_interleaved =
                  Traversal("InterleavedSamplesInterleaved",
                            InterleavedSamplesInterleaved_new(iview),
                            "SeparatedSamplesInterleaved",
                            SeparatedSamplesInterleaved_new(sview))]
    /\ UNCHANGED <<fmt, iview, sview, last, codecVars, source>>

\* buffer.samples_separated() advanced to its end
ReadSamplesSeparated ==
    /\ CanRead
    /\ ~out.samples_separated.done
    /\ out' = [out EXCEPT !.samples_separated =
                  Traversal("InterleavedSamplesSeparated",
                            InterleavedSamplesSeparated_new(iview),
                            "SeparatedSamplesSeparated",
                            SeparatedSamplesSeparated_new(sview))]
    /\ UNCHANGED <<fmt, iview, sview, last, codecVars, source>>

\* one write call applied to both views; ri and rs are its results
Written(op, index, values, ri, rs) ==
    /\ last.op = "none"
    /\ last' = [op |-> op, index |-> index, values |-> values,
                preI |-> iview, preS |-> sview,
                ipanic |-> ri.panic, spanic |-> rs.panic]
    /\ iview' = ri.self
    /\ sview' = rs.self
    /\ out' = NoReads
    /\ UNCHANGED <<fmt, codecVars, source>>

\* buffer.write_frame(index, frame)
WriteFrame ==
    \E index \in 0..MaxF, n \in 0..(MaxC + Extra), base \in Bases :
        LET frame == Fill(n, base)
        IN  Written("write_frame", index, frame,
                    InterleavedBufferMut_write_frame(fmt, iview, index, frame),
                    SeparatedBufferMut_write_frame(fmt, sview, index, frame))

\* buffer.write_frames(frames)
WriteFrames ==
    \E n \in 0..(MaxF + Extra), m \in 0..(MaxC + Extra), base \in Bases, ragged \in BOOLEAN :
        LET frames == Nested(n, m, base, ragged)
        IN  Written("write_frames", 0, frames,
                    InterleavedBufferMut_write_frames(fmt, iview, frames),
                    SeparatedBufferMut_write_frames(fmt, sview, frames))

\* buffer.write_channels(channels)
WriteChannels ==
    \E n \in 0..(MaxC + Extra), m \in 0..(MaxF + Extra), base \in Bases, ragged \in BOOLEAN :
        LET channels == Nested(n, m, base, ragged)
        IN  Written("write_channels", 0, channels,
                    InterleavedBufferMut_write_channels(fmt, iview, channels),
                    SeparatedBufferMut_write_channels(fmt, sview, channels))

\* buffer.write_samples_interleaved(samples)
WriteSamplesInterleaved ==
    \E n \in 0..(iview.frame_count * iview.channel_count + Extra), base \in Bases :
        LET samples == Fill(n, base)
        IN  Written("write_samples_interleaved", 0, samples,
                    InterleavedBufferMut_write_samples_interleaved(fmt, iview, samples),
                    SeparatedBufferMut_write_samples_interleaved(fmt, sview, samples))

\* buffer.write_samples_separated(samples)
WriteSamplesSeparated ==
    \E n \in 0..(iview.frame_count * iview.channel_count + Extra), base \in Bases :
        LET samples == Fill(n, base)
        IN  Written("write_samples_separated", 0, samples,
                    InterleavedBufferMut_write_samples_separated(fmt, iview, samples),
                    SeparatedBufferMut_write_samples_separated(fmt, sview, samples))

\* buffer.write_sample(address, sample)
WriteSample ==
    \E channel \in 0..MaxC, frame \in 0..MaxF, sample \in Bases :
        LET address == SampleAddress(channel, frame)
        IN  Written("write_sample", address, sample,
                    InterleavedBufferMut_write_sample(fmt, iview, address, sample),
                    SeparatedBufferMut_write_sample(fmt, sview, address, sample))

\* buffer.write_channel(index, channel)
WriteChannel ==
    \E index \in 0..MaxC, n \in 0..(MaxF + Extra), base \in Bases :
        LET channel == Fill(n, base)
        IN  Written("write_channel", index, channel,
                    InterleavedBufferMut_write_channel(fmt, iview, index, channel),
                    SeparatedBufferMut_write_channel(fmt, sview, index, channel))

Next ==
    \/ WriteChannel
    \/ ReadSamples
    \/ ReadSamplesInterleaved
    \/ ReadSamplesSeparated
    \/ WriteFrame
    \/ WriteFrames
    \/ WriteChannels
    \/ WriteSamplesInterleaved
    \/ WriteSamplesSeparated
    \/ WriteSample

Spec == Init /\ [][Next]_vars

(***************************************************************************)
(* Accessor runs: after at most one write, one of channel(index),          *)
(* channels(), frame(index) is called on both views, and every view it     *)
(* hands out is iterated to its end.                                       *)
(***************************************************************************)
\* view.into_iter() advanced to its end; r is what into_iter gave
Iterated(kind, r) ==
    IF r.panic THEN [items |-> <<>>, panic |-> TRUE] ELSE Collect(kind, fmt, r.self)

\* what an accessor call gave: no view when the call panicked, else the view
\* and the items it iterates
Accessed(call, IntoIter(_), kind) ==
    IF call.panic
    THEN [created |-> FALSE]
    ELSE LET c == Iterated(kind, IntoIter(call.self))
         IN  [created |-> TRUE, items |-> c.items, panic |-> c.panic]

\* the views a sequence of views yields, each iterated to its end
AccessedAll(views, IntoIter(_), kind) ==
    [panic |-> views.panic,
     views |-> [j \in 1..Len(views.items) |-> Iterated(kind, IntoIter(views.items[j]))]]

\* buffer.channel(index)
ReadChannel ==
    /\ CanRead
    /\ out.access.op = "none"
    /\ \E index \in 0..MaxC :
          out' = [out EXCEPT !.access =
                    [op |-> "channel", index |-> index,
                     i |-> Accessed(InterleavedBuffer_channel(iview, index),
                                    InterleavedChannel_into_iter,
                                    "InterleavedChannelSamples"),
                     s |-> Accessed(SeparatedBuffer_channel(sview, index),
                                    SampleSlice_into_iter, "Samples")]]
    /\ UNCHANGED <<fmt, iview, sview, last, codecVars, source>>

\* buffer.channels()
ReadChannels ==
    /\ CanRead
    /\ out.access.op = "none"
    /\ out' = [out EXCEPT !.access =
                  [op |-> "channels", index |-> 0,
                   i |-> AccessedAll(Collect("InterleavedChannels", fmt,
                                             InterleavedChannels_new(iview)),
                                     InterleavedChannel_into_iter,
                                     "InterleavedChannelSamples"),
                   s |-> AccessedAll(Collect("SeparatedChannels", fmt,
                                             SeparatedChannels_new(sview)),
                                     SampleSlice_into_iter, "Samples")]]
    /\ UNCHANGED <<fmt, iview, sview, last, codecVars, source>>

\* buffer.frame(index)
ReadFrame ==
    /\ CanRead
    /\ out.access.op = "none"
    /\ \E index \in 0..MaxF :
          out' = [out EXCEPT !.access =
                    [op |-> "frame", index |-> index,
                     i |-> Accessed(InterleavedBuffer_frame(iview, index),
                                    SampleSlice_into_iter, "Samples"),
                     s |-> Accessed(SeparatedBuffer_frame(sview, index),
                                    SeparatedFrame_into_iter,
                                    "SeparatedFrameSamples")]]
    /\ UNCHANGED <<fmt, iview, sview, last, codecVars, source>>

\* buffer.frames()
ReadFrames ==
    /\ CanRead
    /\ out.access.op = "none"
    /\ out' = [out EXCEPT !.access =
                  [op |-> "frames", index |-> 0,
                   i |-> AccessedAll(Iterated("InterleavedFrames",
                                              InterleavedFrames_new(iview)),
                                     SampleSlice_into_iter, "Samples"),
                   s |-> AccessedAll(Iterated("SeparatedFrames",
                                              SeparatedFrames_new(sview)),
                                     SeparatedFrame_into_iter,
                                     "SeparatedFrameSamples")]]
    /\ UNCHANGED <<fmt, iview, sview, last, codecVars, source>>

\* view.<accessor>(..)[index]: the accessor call, then the Index of the view
IndexedThrough(call, Index(_, _), index) ==
    IF call.panic THEN [panic |-> TRUE, raw |-> <<>>] ELSE Index(call.self, index)

\* buffer[address], buffer.frame(address.frame)[address.channel] and
\* buffer.channel(address.channel)[address.frame] on both views
ReadIndexed ==
    /\ CanRead
    /\ out.access.op = "none"
    /\ \E channel \in 0..MaxC, frame \in 0..MaxF :
          LET address == SampleAddress(channel, frame)
          IN  out' = [out EXCEPT !.access =
                    [op |-> "index", index |-> 0, address |-> address,
                     i |-> [buffer |-> InterleavedBuffer_index_at(iview, address),
                            frame |-> IndexedThrough(InterleavedBuffer_frame(iview, frame),
                                                     SampleSlice_index, channel),
                            channel |-> IndexedThrough(InterleavedBuffer_channel(iview, channel),
                                                       InterleavedChannel_index, frame)],
                     s |-> [buffer |-> SeparatedBuffer_index_at(sview, address),
                            frame |-> IndexedThrough(SeparatedBuffer_frame(sview, frame),
                                                     SeparatedFrame_index, channel),
                            channel |-> IndexedThrough(SeparatedBuffer_channel(sview, channel),
                                                       SampleSlice_index, frame)]]]
    /\ UNCHANGED <<fmt, iview, sview, last, codecVars, source>>

NextAccess ==
    \/ WriteChannel
    \/ ReadIndexed
    \/ WriteFrame
    \/ WriteFrames
    \/ WriteChannels
    \/ WriteSamplesInterleaved
    \/ WriteSamplesSeparated
    \/ WriteSample
    \/ ReadChannel
    \/ ReadChannels
    \/ ReadFrame
    \/ ReadFrames

SpecAccess == Init /\ [][NextAccess]_vars

(***************************************************************************)
(* Properties of the buffer runs.                                          *)
(***************************************************************************)
FrameCount == iview.frame_count
ChannelCount == iview.channel_count
Layouts == {"interleaved", "separated"}

\* Index<SampleAddress> for InterleavedBuffer
InterleavedBuffer_index(self, address) ==
    self.samples[InterleavedBuffer_offset(self, address) + 1]

\* Index<SampleAddress> for SeparatedBuffer
SeparatedBuffer_index(self, address) ==
    self.channels[address.channel + 1][address.frame + 1]

\* the raw sample at (c, f) of the view of the given layout
RawAt(layout, iv, sv, c, f) ==
    IF layout = "interleaved"
    THEN InterleavedBuffer_index(iv, SampleAddress(c, f))
    ELSE SeparatedBuffer_index(sv, SampleAddress(c, f))

\* the primitive now stored at (c, f)
ValueAt(layout, c, f) == Decode(fmt, RawAt(layout, iview, sview, c, f))

\* what a traversal returned on the view of the given layout
Result(r, layout) == IF layout = "interleaved" THEN r.i ELSE r.s

Values(items) == [k \in 1..Len(items) |-> items[k][2]]

BagOf(s) ==
    [v \in {s[k] : k \in 1..Len(s)} |-> Cardinality({k \in 1..Len(s) : s[k] = v})]

\* after the last write, on both layouts: the addresses selected by W hold the
\* primitive V, every other address holds the raw sample it held before
GridIs(W(_, _), V(_, _)) ==
    \A layout \in Layouts :
        \A c \in 0..(ChannelCount - 1), f \in 0..(FrameCount - 1) :
            IF W(c, f)
            THEN ValueAt(layout, c, f) = V(c, f)
            ELSE RawAt(layout, iview, sview, c, f)
                    = RawAt(layout, last.preI, last.preS, c, f)

Completed == ~last.ipanic /\ ~last.spanic

\* the two views hold the same raw sample at every address of the grid
SameGrid ==
    \A c \in 0..(ChannelCount - 1), f \in 0..(FrameCount - 1) :
        RawAt("interleaved", iview, sview, c, f) = RawAt("separated", iview, sview, c, f)

ScenarioInterleaved ==
    /\ fmt = "i16_LE"
    /\ iview = [samples |-> << <<1, 0>>, <<2, 0>>, <<3, 0>>, <<4, 0>>,
                               <<5, 0>>, <<6, 0>>, <<7, 0>>, <<8, 0>> >>,
                frame_count |-> 4, channel_count |-> 2]

ScenarioSeparated ==
    /\ fmt = "i16_LE"
    /\ sview = [channels |-> << << <<1, 0>>, <<3, 0>>, <<5, 0>>, <<7, 0>> >>,
                                << <<2, 0>>, <<4, 0>>, <<6, 0>>, <<8, 0>> >> >>,
                frame_count |-> 4]

\* C2: on both layouts samples() yields exactly F*C (address, value) pairs, the
\* addresses pairwise distinct and covering the grid [0,C) x [0,F), each paired
\* with the value stored at that address.
C2_SamplesCoverGrid ==
    out.samples.done =>
        \A layout \in Layouts :
            LET r == Result(out.samples, layout)
            IN  /\ ~r.panic
                /\ Len(r.items) = FrameCount * ChannelCount
                /\ \A j, k \in 1..Len(r.items) : j # k => r.items[j][1] # r.items[k][1]
                /\ \A c \in 0..(ChannelCount - 1), f \in 0..(FrameCount - 1) :
                      \E k \in 1..Len(r.items) :
                          r.items[k] = <<SampleAddress(c, f), ValueAt(layout, c, f)>>

\* C2, the failing case: the interleaved scenario view (2 channels x 4 frames)
\* yields four pairs only, at the addresses (0,0), (1,1), (0,2), (1,3)
C2_Witness ==
    /\ ScenarioInterleaved
    /\ out.samples.done
    /\ out.samples.i.items = << <<SampleAddress(0, 0), 1>>, <<SampleAddress(1, 1), 2>>,
                                <<SampleAddress(0, 2), 3>>, <<SampleAddress(1, 3), 4>> >>
    /\ Len(out.samples.s.items) = 8

\* C3: on both layouts samples_interleaved() yields exactly F*C primitives, the
\* k-th being the sample at (channel k mod C, frame k div C); both layouts yield
\* the same sequence when they hold the same grid, [1,2,3,4,5,6,7,8] for
\* channels [[1,3,5,7],[2,4,6,8]].
C3_FrameMajor ==
    out.samples_interleaved.done =>
        /\ \A layout \in Layouts :
              LET r == Result(out.samples_interleaved, layout)
              IN  /\ ~r.panic
                  /\ Len(r.items) = FrameCount * ChannelCount
                  /\ \A k \in 0..(FrameCount * ChannelCount - 1) :
                        r.items[k + 1] = ValueAt(layout, k % ChannelCount, k \div ChannelCount)
        /\ SameGrid => out.samples_interleaved.i.items = out.samples_interleaved.s.items
        /\ ScenarioSeparated => out.samples_interleaved.s.items = <<1, 2, 3, 4, 5, 6, 7, 8>>

\* C3, the failing case: a separated view of 1 frame and no channels panics on
\* the first next()
C3_Witness ==
    /\ out.samples_interleaved.done
    /\ FrameCount = 1
    /\ ChannelCount = 0
    /\ out.samples_interleaved.s.panic
    /\ ~out.samples_interleaved.i.panic

\* C4: on both layouts samples_separated() yields exactly F*C primitives, the
\* k-th being the sample at (channel k div F, frame k mod F); both layouts yield
\* the same sequence when they hold the same grid.
C4_ChannelMajor ==
    out.samples_separated.done =>
        /\ \A layout \in Layouts :
              LET r == Result(out.samples_separated, layout)
              IN  /\ ~r.panic
                  /\ Len(r.items) = FrameCount * ChannelCount
                  /\ \A k \in 0..(FrameCount * ChannelCount - 1) :
                        r.items[k + 1] = ValueAt(layout, k \div FrameCount, k % FrameCount)
        /\ SameGrid => out.samples_separated.i.items = out.samples_separated.s.items

C4_Witness ==
    /\ ScenarioInterleaved
    /\ ScenarioSeparated
    /\ out.samples_separated.done
    /\ out.samples_separated.i.items = <<1, 3, 5, 7, 2, 4, 6, 8>>
    /\ out.samples_separated.s.items = <<1, 3, 5, 7, 2, 4, 6, 8>>

\* C5: on each layout the values returned by samples_interleaved(), by
\* samples_separated() and by samples() form the same multiset.
C5_SameMultiset ==
    (out.samples.done /\ out.samples_interleaved.done /\ out.samples_separated.done) =>
        \A layout \in Layouts :
            /\ BagOf(Result(out.samples_interleaved, layout).items)
                  = BagOf(Result(out.samples_separated, layout).items)
            /\ BagOf(Result(out.samples_separated, layout).items)
                  = BagOf(Values(Result(out.samples, layout).items))

\* C5, the failing case: on the interleaved scenario view samples() returns the
\* values 1..4 while the other two traversals return 1..8
C5_Witness ==
    /\ ScenarioInterleaved
    /\ out.samples.done /\ out.samples_interleaved.done /\ out.samples_separated.done
    /\ Values(out.samples.i.items) = <<1, 2, 3, 4>>
    /\ out.samples_interleaved.i.items = <<1, 2, 3, 4, 5, 6, 7, 8>>
    /\ BagOf(out.samples_separated.i.items) = BagOf(out.samples_interleaved.i.items)

\* C6: on both layouts write_samples_interleaved(p) with len(p) = F*C completes
\* and samples_interleaved() then returns exactly p; likewise
\* write_samples_separated(p) and samples_separated().
C6_WriteReadBack ==
    /\ (last.op = "write_samples_interleaved"
            /\ Len(last.values) = FrameCount * ChannelCount) =>
          /\ Completed
          /\ out.samples_interleaved.done =>
                \A layout \in Layouts :
                    /\ ~Result(out.samples_interleaved, layout).panic
                    /\ Result(out.samples_interleaved, layout).items = last.values
    /\ (last.op = "write_samples_separated"
            /\ Len(last.values) = FrameCount * ChannelCount) =>
          /\ Completed
          /\ out.samples_separated.done =>
                \A layout \in Layouts :
                    /\ ~Result(out.samples_separated, layout).panic
                    /\ Result(out.samples_separated, layout).items = last.values

\* C6, the failing case: on a view of 2 channels and no frames
\* write_samples_separated of the empty pattern panics on both layouts
C6_Witness ==
    /\ last.op = "write_samples_separated"
    /\ FrameCount = 0
    /\ ChannelCount = 2
    /\ last.values = <<>>
    /\ last.ipanic
    /\ last.spanic

\* C7: on both layouts write_frame(index, values) with index < frame_count
\* completes and stores values[k] at (channel k, frame index) for
\* k < min(len(values), channel_count); every other sample, the remaining
\* channels of that frame included, keeps its prior content, and values beyond
\* channel_count are ignored.
C7_WriteFrame ==
    (last.op = "write_frame" /\ last.index < FrameCount) =>
        LET W(c, f) == f = last.index /\ c < Len(last.values)
            V(c, f) == last.values[c + 1]
        IN  Completed /\ GridIs(W, V)

\* a 1-element frame written into a 2-channel view: channel 0 of that frame
\* takes the new value, channel 1 keeps its content
C7_Witness ==
    /\ last.op = "write_frame"
    /\ last.index < FrameCount
    /\ ChannelCount = 2
    /\ Len(last.values) = 1
    /\ Completed
    /\ \A layout \in Layouts :
          /\ ValueAt(layout, 0, last.index) = last.values[1]
          /\ RawAt(layout, last.preI, last.preS, 0, last.index) # Encode(fmt, last.values[1])
          /\ RawAt(layout, iview, sview, 1, last.index)
                = RawAt(layout, last.preI, last.preS, 1, last.index)

\* C8: on both layouts write_frames(frames) completes and writes the i-th
\* supplied frame into frame i for i < min(frames supplied, frame_count); frames
\* beyond frame_count modify nothing and the frames not supplied keep their
\* prior content.
C8_WriteFrames ==
    last.op = "write_frames" =>
        LET W(c, f) == f < Len(last.values) /\ c < Len(last.values[f + 1])
            V(c, f) == last.values[f + 1][c + 1]
        IN  Completed /\ GridIs(W, V)

\* C8, the failing case: on a view of 1 frame and no channels write_frames
\* panics on the interleaved layout and completes on the separated one
C8_Witness ==
    /\ last.op = "write_frames"
    /\ FrameCount = 1
    /\ ChannelCount = 0
    /\ last.ipanic
    /\ ~last.spanic

\* C9: on both layouts write_channels(channels) completes and writes the j-th
\* supplied channel into channel j for j < min(channels supplied,
\* channel_count), each cut to frame_count values; channels beyond
\* channel_count modify no sample.
C9_WriteChannels ==
    last.op = "write_channels" =>
        LET W(c, f) == c < Len(last.values) /\ f < Len(last.values[c + 1])
            V(c, f) == last.values[c + 1][f + 1]
        IN  Completed /\ GridIs(W, V)

\* C9, the failing case: three channels written into the interleaved view of
\* 2 channels x 2 frames; the third channel's first value lands at (0, 1)
C9_Witness ==
    /\ last.op = "write_channels"
    /\ FrameCount = 2
    /\ ChannelCount = 2
    /\ last.values = << <<100, 101>>, <<110, 111>>, <<120, 121>> >>
    /\ Completed
    /\ ValueAt("interleaved", 0, 1) = 120
    /\ ValueAt("separated", 0, 1) = 101

\* C10: on both layouts write_samples_interleaved(values) and
\* write_samples_separated(values) complete and store the first
\* min(len(values), F*C) values at the first positions of frame-major
\* respectively channel-major order; values beyond F*C modify no sample and the
\* positions beyond len(values) keep their prior content.
C10_WriteSamples ==
    /\ last.op = "write_samples_interleaved" =>
          LET W(c, f) == ChannelCount * f + c < Len(last.values)
              V(c, f) == last.values[ChannelCount * f + c + 1]
          IN  Completed /\ GridIs(W, V)
    /\ last.op = "write_samples_separated" =>
          LET W(c, f) == FrameCount * c + f < Len(last.values)
              V(c, f) == last.values[FrameCount * c + f + 1]
          IN  Completed /\ GridIs(W, V)

\* C10, the failing case: five values written by write_samples_separated into
\* the interleaved view of 2 channels x 2 frames; the fifth value lands at (0, 1)
C10_Witness ==
    /\ last.op = "write_samples_separated"
    /\ FrameCount = 2
    /\ ChannelCount = 2
    /\ last.values = <<100, 101, 102, 103, 104>>
    /\ Completed
    /\ ValueAt("interleaved", 0, 1) = 104
    /\ ValueAt("separated", 0, 1) = 101

\* C11: on both layouts write_sample(address, value) with
\* address.channel >= channel_count or address.frame >= frame_count fails and
\* leaves every sample of the buffer unchanged.
C11_WriteSampleOutOfRange ==
    (last.op = "write_sample"
        /\ (last.index.channel >= ChannelCount \/ last.index.frame >= FrameCount)) =>
        /\ last.ipanic
        /\ last.spanic
        /\ iview = last.preI
        /\ sview = last.preS

\* C11, the failing case: write_sample((channel 2, frame 0), 100) on the
\* interleaved view of 2 channels x 2 frames returns and stores 100 at (0, 1);
\* the separated view fails
C11_Witness ==
    /\ last.op = "write_sample"
    /\ FrameCount = 2
    /\ ChannelCount = 2
    /\ last.index = SampleAddress(2, 0)
    /\ last.values = 100
    /\ ~last.ipanic
    /\ last.spanic
    /\ ValueAt("interleaved", 0, 1) = 100
    /\ sview = last.preS

\* C12: on both layouts channel(index) with index >= channel_count fails and
\* returns no channel view.
C12_ChannelOutOfRange ==
    (out.access.op = "channel" /\ out.access.index >= ChannelCount) =>
        /\ ~out.access.i.created
        /\ ~out.access.s.created

\* C12, the failing case: channel(2) on the interleaved view of 2 channels x
\* 2 frames holding [1,2,3,4] returns a view, which iterates [3]; the separated
\* view fails
C12_Witness ==
    /\ out.access.op = "channel"
    /\ out.access.index = 2
    /\ FrameCount = 2
    /\ ChannelCount = 2
    /\ fmt = "i16_LE"
    /\ iview.samples = << <<1, 0>>, <<2, 0>>, <<3, 0>>, <<4, 0>> >>
    /\ out.access.i = [created |-> TRUE, items |-> <<3>>, panic |-> FALSE]
    /\ ~out.access.s.created

\* C13: on both layouts frame(index) with index >= frame_count fails and
\* returns no frame view.
C13_FrameOutOfRange ==
    (out.access.op = "frame" /\ out.access.index >= FrameCount) =>
        /\ ~out.access.i.created
        /\ ~out.access.s.created

\* C13, the failing case: frame(2) on the separated view of 2 channels x
\* 2 frames returns a view, whose iteration panics on its first step; the
\* interleaved view fails
C13_Witness ==
    /\ out.access.op = "frame"
    /\ out.access.index = 2
    /\ FrameCount = 2
    /\ ChannelCount = 2
    /\ out.access.s = [created |-> TRUE, items |-> <<>>, panic |-> TRUE]
    /\ ~out.access.i.created

\* C14: for the 4-byte packed 24-bit types, two raw values that differ only
\* in the unused byte compare equal and decode to the same primitive; two raw
\* values that differ in one of the three significant bytes compare unequal.
C14_UnusedByteIgnored ==
    c_phase = "raw_cmp" =>
        LET significant == (1..4) \ {UnusedByte(c_codec)}
            differ == \E i \in significant : c_start[i] # c_val.other[i]
        IN  /\ ~differ => (c_val.eq /\ c_val.primitive = c_val.other_primitive)
            /\ differ => ~c_val.eq

\* two BE4B values with unused bytes 1 and 255 and the same significant bytes
\* compare equal and decode to -8388608
C14_Witness ==
    /\ c_phase = "raw_cmp"
    /\ c_codec = "I24_BE4B"
    /\ c_start = <<1, 128, 0, 0>>
    /\ c_val.other = <<255, 128, 0, 0>>
    /\ c_val.eq
    /\ c_val.primitive = -8388608
    /\ c_val.other_primitive = -8388608

(***************************************************************************)
(* The value a raw sample stands for, stated from the bytes alone.         *)
(***************************************************************************)
SignedTypes == {"i8_NE", "i16_LE", "i16_BE", "i32_LE", "i32_BE", "i64_LE", "i64_BE",
                "I24_LE3B", "I24_BE3B", "I24_LE4B", "I24_BE4B"}
LimbTypes == {"u32_LE", "u32_BE", "f32_LE", "f32_BE", "i64_LE", "i64_BE", "u64_LE", "u64_BE"}
I24Types == {"I24_LE3B", "I24_BE3B", "I24_LE4B", "I24_BE4B"}
U24Types == {"U24_LE3B", "U24_BE3B", "U24_LE4B", "U24_BE4B"}

\* the significant bytes of r in the byte order of t, least significant first
SignificantLE(t, r) ==
    CASE t \in {"I24_LE4B", "U24_LE4B"} -> SubSeq(r, 1, 3)
      [] t \in {"I24_BE4B", "U24_BE4B"} -> <<r[4], r[3], r[2]>>
      [] t \in {"i16_BE", "u16_BE", "i32_BE", "u32_BE", "i64_BE", "u64_BE", "f32_BE",
                "I24_BE3B", "U24_BE3B"} -> [i \in 1..Len(r) |-> r[Len(r) + 1 - i]]
      [] OTHER -> r

RECURSIVE PositionalLE(_)
\* b[1] + 256 b[2] + 256^2 b[3] + ...
PositionalLE(b) == IF b = <<>> THEN 0 ELSE Head(b) + 256 * PositionalLE(Tail(b))

\* the value of the bytes b (least significant first) read as an unsigned
\* number, or as a two's-complement number of 8 * Len(b) bits
ValueOfBytes(b, signed) ==
    LET top == b[Len(b)]
        low == SubSeq(b, 1, Len(b) - 1)
        msb == IF signed /\ top >= 128 THEN top - 256 ELSE top
    IN  PositionalLE(low \o <<msb>>)

\* the same for the primitives held as 16-bit limbs, most significant limb first
LimbsOfBytes(b) ==
    [k \in 1..(Len(b) \div 2) |->
        b[Len(b) + 1 - (2 * k - 1)] * 256 + b[Len(b) + 1 - 2 * k]]

Equilibrium(t) ==
    CASE t = "u8_NE" -> 128
      [] t \in {"u16_LE", "u16_BE"} -> 2 * 128 * 128
      [] t \in U24Types -> 2 * 128 * 128 * 256
      [] t \in LimbTypes ->
            [k \in 1..(SampleSize(t) \div 2) |->
                IF k = 1 /\ t \notin SignedTypes /\ t \notin {"f32_LE", "f32_BE"}
                THEN 32768 ELSE 0]
      [] OTHER -> 0

\* C16: for every codec, decoding the default raw value gives the primitive's
\* equilibrium (0 for signed integers and floats, 1 << (bits - 1) for unsigned
\* integers: 128 for u8, 32768 for u16, 8388608 for U24), and encoding the
\* equilibrium gives the default raw value.
C16_DefaultIsEquilibrium ==
    /\ c_phase = "default_dec" =>
          /\ c_val = Equilibrium(c_codec)
          /\ c_codec = "u8_NE" => c_val = 128
          /\ c_codec \in {"u16_LE", "u16_BE"} => c_val = 32768
          /\ c_codec \in U24Types => c_val = 8388608
    /\ (c_phase = "prim_enc" /\ c_start = Equilibrium(c_codec)) =>
          RawEq(c_codec, c_val, Default(c_codec))

\* U24 LE4B::default() was decoded to 8388608
C16_Witness ==
    /\ c_phase = "default_dec"
    /\ c_codec = "U24_LE4B"
    /\ c_val = 8388608

(***************************************************************************)
(* Construction of views.                                                  *)
(***************************************************************************)
\* the largest ChannelCount (u16), as ChannelCount::try_from accepts it
ChannelCount_MAX == 65535

\* the elements a byte slice is cut into
Elements(t, bytes) ==
    [k \in 1..(Len(bytes) \div SampleSize(t)) |->
        SubSeq(bytes, (k - 1) * SampleSize(t) + 1, k * SampleSize(t))]

\* faulty variant: dangling bytes are dropped instead of refused
transmute_from_bytes_truncating(t, bytes) == Ok(Elements(t, bytes))

\* transmute_from_bytes::<T> / transmute_from_bytes_mut::<T>
transmute_from_bytes(t, bytes) ==
    IF Len(bytes) % SampleSize(t) # 0
    THEN Panicked(<<>>)
    ELSE Ok(Elements(t, bytes))

\* InterleavedBuffer::new / InterleavedBufferMut::new
InterleavedBuffer_new(samples, frame_count, channel_count) ==
    IF Len(samples) # frame_count * channel_count
    THEN Panicked(<<>>)
    ELSE Ok([samples |-> samples, frame_count |-> frame_count,
             channel_count |-> channel_count])

\* SeparatedBuffer::new / SeparatedBufferMut::new
SeparatedBuffer_new(channels, frame_count) ==
    IF ~(Len(channels) <= ChannelCount_MAX)
    THEN Panicked(<<>>)
    ELSE IF SelectSeq(channels, LAMBDA channel : Len(channel) # frame_count) # <<>>
    THEN Panicked(<<>>)
    ELSE Ok([channels |-> channels, frame_count |-> frame_count])

\* the primitives with raw-sample types in src/src/types, and those among them
\* that sized_sample! gives the SizedSample impl
Primitives == {"I8", "I16", "I24", "U8", "U16", "U24", "U64", "F32"}
SizedSamples == {"I8", "I16", "I24", "U8", "U16", "U64", "F32"}

\* the variants of the primitive's RawFormat
Variants(P) ==
    CASE P \in {"I8", "U8"} -> {"NE"}
      [] P \in {"I24", "U24"} -> {"LE3B", "BE3B", "LE4B", "BE4B"}
      [] OTHER -> {"LE", "BE"}

\* RawSampleFormat::P(RawFormat::variant)
RawSampleFormats == UNION {{[family |-> P, variant |-> v] : v \in Variants(P)} : P \in Primitives}

\* the raw-sample type $variant of the module of P
VariantType(P, variant) ==
    CASE P = "I8" -> "i8_NE"
      [] P = "U8" -> "u8_NE"
      [] P = "I16" -> IF variant = "LE" THEN "i16_LE" ELSE "i16_BE"
      [] P = "U16" -> IF variant = "LE" THEN "u16_LE" ELSE "u16_BE"
      [] P = "U64" -> IF variant = "LE" THEN "u64_LE" ELSE "u64_BE"
      [] P = "F32" -> IF variant = "LE" THEN "f32_LE" ELSE "f32_BE"
      [] P = "I24" -> CASE variant = "LE3B" -> "I24_LE3B"
                        [] variant = "BE3B" -> "I24_BE3B"
                        [] variant = "LE4B" -> "I24_LE4B"
                        [] OTHER -> "I24_BE4B"
      [] P = "U24" -> CASE variant = "LE3B" -> "U24_LE3B"
                        [] variant = "BE3B" -> "U24_BE3B"
                        [] variant = "LE4B" -> "U24_LE4B"
                        [] OTHER -> "U24_BE4B"

\* SizedSample::supports_format: matches!(format, RawSampleFormat::$self(_))
supports_format(P, format) == format.family = P

NoView == [samples |-> <<>>, frame_count |-> 0, channel_count |-> 0]

\* what create_interleaved_buffer hands back: Some(buffer) of a raw-sample
\* type, None, or a panic
Created(t, buffer) == [result |-> "Some", type |-> t, buffer |-> buffer]
NotCreated(result) == [result |-> result, type |-> "none", buffer |-> NoView]

\* the arm of the match for the type t
CreateArm(t, bytes, channel_count, frame_count) ==
    LET samples == transmute_from_bytes(t, bytes)
    IN  IF samples.panic
        THEN NotCreated("panic")
        ELSE LET buffer == InterleavedBuffer_new(samples.self, frame_count, channel_count)
             IN  IF buffer.panic THEN NotCreated("panic") ELSE Created(t, buffer.self)

\* faulty variant: the arms match on the variant alone, whatever the family
create_interleaved_buffer_any_family(P, bytes, format, channel_count, frame_count) ==
    IF format.variant \in Variants(P)
    THEN CreateArm(VariantType(P, format.variant), bytes, channel_count, frame_count)
    ELSE NotCreated("None")

\* SizedSample::create_interleaved_buffer / create_interleaved_buffer_mut for P
create_interleaved_buffer(P, bytes, format, channel_count, frame_count) ==
    IF format.family = P /\ format.variant \in Variants(P)
    THEN CreateArm(VariantType(P, format.variant), bytes, channel_count, frame_count)
    ELSE NotCreated("None")

(***************************************************************************)
(* Construction runs: one constructor call on the caller's memory, then    *)
(* the created view is read.                                               *)
(***************************************************************************)
MaxBytes == 2 * MaxF * MaxC

\* the caller's memory: 1, 0, 2, 0, ... (spec.md section 9)
Bytes(n) == [k \in 1..n |-> IF k % 2 = 1 THEN (k + 1) \div 2 ELSE 0]

\* the channel slices handed to SeparatedBuffer::new: m samples each, one of
\* them possibly longer
SeparatedInputs(t) ==
    {[c \in 1..n |-> [f \in 1..(IF c = d THEN m + 1 ELSE m) |-> Stored(t, 10 * c + f)]] :
        n \in 0..(MaxC + Extra), m \in 0..MaxF, d \in 0..MaxC}

\* n empty channel slices
EmptyChannels(n) == [c \in 1..n |-> <<>>]

CreateInit == CodecIdle /\ BufIdle

NewInterleaved ==
    /\ last.op = "none"
    /\ \E t \in BufFormats, n \in 0..(MaxF * MaxC + Extra),
          frame_count \in 0..MaxF, channel_count \in 0..MaxC, mutable \in BOOLEAN :
          LET samples == [k \in 1..n |-> Stored(t, k)]
              r == InterleavedBuffer_new(samples, frame_count, channel_count)
          IN  /\ last' = [op |-> "InterleavedBuffer::new", mutable |-> mutable,
                          samples |-> samples, frame_count |-> frame_count,
                          channel_count |-> channel_count,
                          result |-> IF r.panic THEN "panic" ELSE "Some"]
              /\ iview' = IF r.panic THEN iview ELSE r.self
              /\ fmt' = t
    /\ UNCHANGED <<sview, out, codecVars, source>>

NewSeparatedOf(t, channels, frame_count, mutable) ==
    LET r == SeparatedBuffer_new(channels, frame_count)
    IN  /\ last' = [op |-> "SeparatedBuffer::new", mutable |-> mutable,
                    channels |-> channels, frame_count |-> frame_count,
                    result |-> IF r.panic THEN "panic" ELSE "Some"]
        /\ sview' = IF r.panic THEN sview ELSE r.self
        /\ fmt' = t

\* SeparatedBuffer::new / SeparatedBufferMut::new on a few channels, or on as
\* many empty channels as a ChannelCount can number and one more
NewSeparated ==
    /\ last.op = "none"
    /\ \E t \in BufFormats, frame_count \in 0..MaxF, mutable \in BOOLEAN :
          \/ \E channels \in SeparatedInputs(t) :
                NewSeparatedOf(t, channels, frame_count, mutable)
          \/ /\ frame_count = 0
             /\ \E n \in {ChannelCount_MAX, ChannelCount_MAX + 1} :
                   NewSeparatedOf(t, EmptyChannels(n), frame_count, mutable)
    /\ UNCHANGED <<iview, out, codecVars, source>>

\* P::create_interleaved_buffer(bytes, format, channel_count, frame_count) and
\* its _mut twin; a primitive without the SizedSample impl has neither
CreateInterleavedBuffer ==
    /\ last.op = "none"
    /\ \E P \in Primitives, format \in RawSampleFormats, n \in 0..MaxBytes,
          channel_count \in 0..MaxC, frame_count \in 0..MaxF, mutable \in BOOLEAN :
          LET bytes == Bytes(n)
              r == IF P \in SizedSamples
                   THEN create_interleaved_buffer(P, bytes, format, channel_count,
                                                  frame_count)
                   ELSE NotCreated("unimplemented")
          IN  /\ last' = [op |-> "create_interleaved_buffer", mutable |-> mutable,
                          primitive |-> P, format |-> format, bytes |-> bytes,
                          frame_count |-> frame_count, channel_count |-> channel_count,
                          result |-> r.result, bytes_after |-> bytes]
              /\ iview' = IF r.result = "Some" THEN r.buffer ELSE iview
              /\ fmt' = IF r.result = "Some" THEN r.type ELSE fmt
    /\ UNCHANGED <<sview, out, codecVars, source>>

\* buffer.samples_interleaved() of the created buffer, advanced to its end
ReadCreated ==
    /\ last.op = "create_interleaved_buffer"
    /\ last.result = "Some"
    /\ ~out.samples_interleaved.done
    /\ out' = [out EXCEPT !.samples_interleaved =
                  Traversal("InterleavedSamplesInterleaved",
                            InterleavedSamplesInterleaved_new(iview),
                            "SeparatedSamplesInterleaved",
                            SeparatedSamplesInterleaved_new(sview))]
    /\ UNCHANGED <<fmt, iview, sview, last, codecVars, source>>

NextCreate == NewInterleaved \/ NewSeparated \/ CreateInterleavedBuffer \/ ReadCreated

SpecCreate == CreateInit /\ [][NextCreate]_vars

\* the width in bytes of the raw sample a format names
FormatWidth(format) ==
    CASE format.variant = "NE" -> 1
      [] format.variant \in {"LE3B", "BE3B"} -> 3
      [] format.variant \in {"LE4B", "BE4B"} -> 4
      [] format.family \in {"I16", "U16"} -> 2
      [] format.family = "U64" -> 8
      [] OTHER -> 4

\* C17: view construction fails and produces no view when (a) the byte length
\* is not a multiple of the raw sample width, (b) the number of samples of an
\* interleaved view differs from frame_count * channel_count, (c) a channel of
\* a separated view has a length other than frame_count or there are more
\* channels than a channel index can number; in every other case it succeeds.
C17_ConstructionFailsFast ==
    /\ last.op = "InterleavedBuffer::new" =>
          IF Len(last.samples) # last.frame_count * last.channel_count
          THEN last.result = "panic" /\ iview = NoView
          ELSE /\ last.result = "Some"
               /\ iview = [samples |-> last.samples, frame_count |-> last.frame_count,
                           channel_count |-> last.channel_count]
    /\ last.op = "SeparatedBuffer::new" =>
          IF \/ Len(last.channels) > 65535
             \/ Len(SelectSeq(last.channels,
                              LAMBDA channel : Len(channel) = last.frame_count))
                    < Len(last.channels)
          THEN last.result = "panic" /\ sview = [channels |-> <<>>, frame_count |-> 0]
          ELSE /\ last.result = "Some"
               /\ sview = [channels |-> last.channels, frame_count |-> last.frame_count]
    /\ (last.op = "create_interleaved_buffer" /\ last.primitive \in SizedSamples
            /\ last.format.family = last.primitive) =>
          LET w == FormatWidth(last.format)
          IN  IF \/ Len(last.bytes) % w # 0
                 \/ Len(last.bytes) \div w # last.frame_count * last.channel_count
              THEN last.result = "panic" /\ iview = NoView
              ELSE /\ last.result = "Some"
                   /\ iview.frame_count = last.frame_count
                   /\ iview.channel_count = last.channel_count
                   /\ Len(iview.samples) * w = Len(last.bytes)

\* SeparatedBuffer::new was refused 65536 channels of frame_count 0 samples each
C17_Witness ==
    /\ last.op = "SeparatedBuffer::new"
    /\ Len(last.channels) = 65536
    /\ last.frame_count = 0
    /\ last.result = "panic"

\* the bytes are exactly frame_count * channel_count raw samples of the format
Shaped(format, bytes, frame_count, channel_count) ==
    /\ Len(bytes) % FormatWidth(format) = 0
    /\ Len(bytes) \div FormatWidth(format) = frame_count * channel_count

\* C18 as stated: create_interleaved_buffer(_mut) of a primitive P returns a
\* view if and only if supports_format(format) holds for P; for any other
\* format it returns None without failing and without modifying the bytes.
C18_ViewIffSupported ==
    (last.op = "create_interleaved_buffer" /\ last.primitive \in SizedSamples) =>
        /\ (last.result = "Some") <=> supports_format(last.primitive, last.format)
        /\ ~supports_format(last.primitive, last.format) =>
              (last.result = "None" /\ last.bytes_after = last.bytes)

\* C18 amended: create_interleaved_buffer(_mut) of a primitive P returns a
\* view if and only if supports_format(format) holds for P and the bytes hold
\* exactly frame_count * channel_count raw samples of the format; with a
\* supported format and any other bytes the call fails; for any other format
\* it returns None without failing and without modifying the bytes, whatever
\* the bytes are.
C18_ViewIffSupportedAndShaped ==
    (last.op = "create_interleaved_buffer" /\ last.primitive \in SizedSamples) =>
        LET supported == supports_format(last.primitive, last.format)
            shaped == Shaped(last.format, last.bytes, last.frame_count, last.channel_count)
        IN  /\ (last.result = "Some") <=> (supported /\ shaped)
            /\ (last.result = "panic") <=> (supported /\ ~shaped)
            /\ ~supported =>
                  (last.result = "None" /\ last.bytes_after = last.bytes /\ iview = NoView)

\* i16 was asked for a buffer over three bytes tagged U16(LE): None, no failure
C18_Witness ==
    /\ last.op = "create_interleaved_buffer"
    /\ last.primitive = "I16"
    /\ last.format = [family |-> "U16", variant |-> "LE"]
    /\ last.bytes = <<1, 0, 2>>
    /\ last.result = "None"
    /\ last.bytes_after = <<1, 0, 2>>

\* the value the format gives the bytes r of one raw sample
FormatValue(format, r) ==
    LET b == CASE format.variant \in {"NE", "LE", "LE3B"} -> r
               [] format.variant \in {"BE", "BE3B"} -> [i \in 1..Len(r) |-> r[Len(r) + 1 - i]]
               [] format.variant = "LE4B" -> <<r[1], r[2], r[3]>>
               [] format.variant = "BE4B" -> <<r[4], r[3], r[2]>>
    IN  IF format.family \in {"U64", "F32"}
        THEN LimbsOfBytes(b)
        ELSE ValueOfBytes(b, format.family \in {"I8", "I16", "I24"})

\* C19: for every primitive family and every encoding E it supports,
\* create_interleaved_buffer(_mut) called with format (family, E) over
\* frame_count * channel_count raw samples returns a view that reports the
\* declared frame_count and channel_count and decodes every sample with the
\* codec of E (the i16 bytes [1, 0] read 1 under LE and 256 under BE).
C19_DispatchEveryFamily ==
    (/\ last.op = "create_interleaved_buffer"
     /\ last.format.family = last.primitive
     /\ Shaped(last.format, last.bytes, last.frame_count, last.channel_count)) =>
        LET w == FormatWidth(last.format)
        IN  /\ last.result = "Some"
            /\ iview.frame_count = last.frame_count
            /\ iview.channel_count = last.channel_count
            /\ out.samples_interleaved.done =>
                  /\ ~out.samples_interleaved.i.panic
                  /\ out.samples_interleaved.i.items =
                        [k \in 1..(last.frame_count * last.channel_count) |->
                            FormatValue(last.format,
                                        SubSeq(last.bytes, (k - 1) * w + 1, k * w))]
                  /\ (last.primitive = "I16" /\ last.bytes = <<1, 0>>) =>
                        out.samples_interleaved.i.items =
                            IF last.format.variant = "LE" THEN <<1>> ELSE <<256>>

\* the i16 bytes [1, 0] were read through a buffer created for I16(BE): 256
C19_Witness ==
    /\ last.op = "create_interleaved_buffer"
    /\ last.primitive = "I16"
    /\ last.format = [family |-> "I16", variant |-> "BE"]
    /\ last.bytes = <<1, 0>>
    /\ last.result = "Some"
    /\ out.samples_interleaved.done
    /\ out.samples_interleaved.i.items = <<256>>

\* the values of channel c of the grid in frame order, on the view of a layout
ChannelValues(layout, c) == [f \in 1..FrameCount |-> ValueAt(layout, c, f - 1)]

\* C20: on both layouts channel(c) for c < channel_count iterates exactly
\* frame_count values, the samples at (c, 0), (c, 1), ..., (c, F - 1) in frame
\* order; channels() yields exactly channel_count channel views in the order
\* 0, 1, ..., the j-th iterating the same values as channel(j).  In the
\* 2-channel 4-frame interleaved scenario channel(0) = [1, 3, 5, 7] and
\* channel(1) = [2, 4, 6, 8].
C20_ChannelViews ==
    /\ (out.access.op = "channel" /\ out.access.index < ChannelCount) =>
          /\ \A layout \in Layouts :
                LET r == Result(out.access, layout)
                IN  /\ r.created
                    /\ ~r.panic
                    /\ Len(r.items) = FrameCount
                    /\ r.items = ChannelValues(layout, out.access.index)
          /\ ScenarioInterleaved =>
                out.access.i.items =
                    IF out.access.index = 0 THEN <<1, 3, 5, 7>> ELSE <<2, 4, 6, 8>>
    /\ out.access.op = "channels" =>
          \A layout \in Layouts :
              LET r == Result(out.access, layout)
              IN  /\ ~r.panic
                  /\ Len(r.views) = ChannelCount
                  /\ \A j \in 1..Len(r.views) :
                        /\ ~r.views[j].panic
                        /\ r.views[j].items = ChannelValues(layout, j - 1)
                        /\ r.views[j] =
                              IF layout = "interleaved"
                              THEN Iterated("InterleavedChannelSamples",
                                            InterleavedChannel_into_iter(
                                                InterleavedBuffer_channel(iview, j - 1).self))
                              ELSE Iterated("Samples",
                                            SampleSlice_into_iter(
                                                SeparatedBuffer_channel(sview, j - 1).self))

\* channel(1) of the interleaved scenario view was iterated: 2, 4, 6, 8
C20_Witness ==
    /\ ScenarioInterleaved
    /\ out.access.op = "channel"
    /\ out.access.index = 1
    /\ out.access.i.created
    /\ out.access.i.items = <<2, 4, 6, 8>>

\* the values of frame f of the grid in channel order, on the view of a layout
FrameValues(layout, f) == [c \in 1..ChannelCount |-> ValueAt(layout, c - 1, f)]

\* C21: on both layouts frame(f) for f < frame_count iterates exactly
\* channel_count values, the samples at (0, f), (1, f), ..., (C - 1, f) in
\* channel order; frames() yields exactly frame_count frame views in frame
\* order, the i-th iterating the same values as frame(i).
C21_FrameViews ==
    /\ (out.access.op = "frame" /\ out.access.index < FrameCount) =>
          \A layout \in Layouts :
              LET r == Result(out.access, layout)
              IN  /\ r.created
                  /\ ~r.panic
                  /\ Len(r.items) = ChannelCount
                  /\ r.items = FrameValues(layout, out.access.index)
    /\ out.access.op = "frames" =>
          \A layout \in Layouts :
              LET r == Result(out.access, layout)
              IN  /\ ~r.panic
                  /\ Len(r.views) = FrameCount
                  /\ \A i \in 1..Len(r.views) :
                        /\ ~r.views[i].panic
                        /\ r.views[i].items = FrameValues(layout, i - 1)

\* frames() of the interleaved scenario view was advanced to its end
C21_Witness ==
    /\ ScenarioInterleaved
    /\ out.access.op = "frames"
    /\ ~out.access.i.panic
    /\ Len(out.access.i.views) = 4
    /\ out.access.i.views[2].items = <<3, 4>>

\* the raw element an indexed accessor denoted, when it denoted one
Denotes(r, raw) == ~r.panic /\ r.raw = raw

\* C22: for c < C and f < F, on an interleaved view buffer[(c,f)],
\* frame(f)[c] and channel(c)[f] all denote the raw element at linear offset
\* C*f + c, and on a separated view they all denote channels[c][f].
C22_IndexedAccessorsAgree ==
    (/\ out.access.op = "index"
     /\ out.access.address.channel < ChannelCount
     /\ out.access.address.frame < FrameCount)
    => LET c == out.access.address.channel
           f == out.access.address.frame
           iraw == iview.samples[ChannelCount * f + c + 1]
           sraw == sview.channels[c + 1][f + 1]
       IN  /\ Denotes(out.access.i.buffer, iraw)
           /\ Denotes(out.access.i.frame, iraw)
           /\ Denotes(out.access.i.channel, iraw)
           /\ Denotes(out.access.s.buffer, sraw)
           /\ Denotes(out.access.s.frame, sraw)
           /\ Denotes(out.access.s.channel, sraw)

\* the same without channel(c)[f] of the interleaved view
C22_AllButInterleavedChannel ==
    (/\ out.access.op = "index"
     /\ out.access.address.channel < ChannelCount
     /\ out.access.address.frame < FrameCount)
    => LET c == out.access.address.channel
           f == out.access.address.frame
           iraw == iview.samples[ChannelCount * f + c + 1]
           sraw == sview.channels[c + 1][f + 1]
       IN  /\ Denotes(out.access.i.buffer, iraw)
           /\ Denotes(out.access.i.frame, iraw)
           /\ Denotes(out.access.s.buffer, sraw)
           /\ Denotes(out.access.s.frame, sraw)
           /\ Denotes(out.access.s.channel, sraw)

\* channel(0)[1] is read on the interleaved scenario view of two channels
C22_Witness ==
    /\ ScenarioInterleaved
    /\ out.access.op = "index"
    /\ out.access.address = SampleAddress(0, 1)
    /\ ~out.access.i.channel.panic
    /\ out.access.i.channel.raw = iview.samples[2]
    /\ out.access.i.buffer.raw = iview.samples[3]
    /\ iview.samples[2] # iview.samples[3]

\* the write operations of SampleBufferMut
WriteOps == {"write_frame", "write_frames", "write_channel", "write_channels",
             "write_sample", "write_samples_interleaved", "write_samples_separated"}

\* the last write failed on both layouts or on none, and when it completed the
\* two views hold the same raw sample at every address
LayoutsAgree == (last.ipanic = last.spanic) /\ (Completed => SameGrid)

\* C23: starting from equal dimensions and equal grid contents, the same
\* SampleBufferMut operation with the same arguments fails on the interleaved
\* view exactly when it fails on the separated view and leaves both holding
\* the same value at every address (c, f).
C23_LayoutsAgree == last.op \in WriteOps => LayoutsAgree

\* the writes whose arguments stay inside the grid of a view with at least one
\* frame and one channel
InsideGrid ==
    /\ FrameCount > 0
    /\ ChannelCount > 0
    /\ CASE last.op = "write_frame" -> last.index < FrameCount
          [] last.op = "write_channel" -> last.index < ChannelCount
          [] last.op = "write_channels" -> Len(last.values) <= ChannelCount
          [] last.op = "write_sample" ->
                last.index.channel < ChannelCount /\ last.index.frame < FrameCount
          [] last.op = "write_samples_separated" ->
                Len(last.values) <= FrameCount * ChannelCount
          [] OTHER -> TRUE

\* the two layouts agree on every write that stays inside the grid, and on
\* every write_frame
C23_AgreeInsideGrid ==
    /\ (last.op \in WriteOps /\ InsideGrid) => LayoutsAgree
    /\ last.op = "write_frame" => LayoutsAgree

\* C23, the failing case: write_channel(2, [100]) on views of 2 channels x 2
\* frames stores 100 at (0, 1) of the interleaved view and fails on the
\* separated view
C23_Witness ==
    /\ last.op = "write_channel"
    /\ FrameCount = 2
    /\ ChannelCount = 2
    /\ last.index = 2
    /\ last.values = <<100>>
    /\ ~last.ipanic
    /\ last.spanic
    /\ ValueAt("interleaved", 0, 1) = 100

(***************************************************************************)
(* AudioSource runs: the host calls Sinus::fill_buffer on consecutive      *)
(* buffers of one stream; each layout has its own Sinus.  write_frames is  *)
(* followed turn by turn of its loop.  The frames handed to write_frames   *)
(* are iter::repeat_with(frame); the run may cut them to `available`       *)
(* frames and may let each frame supply `surplus` values more than         *)
(* channel_count (Sinus: unbounded, no surplus).                           *)
(***************************************************************************)
MaxCallbacks == 2   \* callbacks of a run
SampleRate == 3     \* Sinus::sample_rate
Unbounded == -1     \* frames available: no end

\* Sinus::new
Sinus_new == [sample_clock |-> 0]

\* T::from_sample of the sinusoid at the given clock, as a function of the
\* phase (clock * 440) mod sample_rate; stands for sin(2 pi phase / rate)
Wave(clock) == 1000 * ((clock * 440) % SampleRate) - 1000

\* Sinus::next
Sinus_next(self) ==
    LET clock == (self.sample_clock + 1) % SampleRate
    IN  [self |-> [sample_clock |-> clock], sample |-> Wave(clock)]

\* the closure `frame` of fill_buffer: one generated value, repeated
Sinus_frame(self, n) ==
    LET g == Sinus_next(self)
    IN  [self |-> g.self, frame |-> [c \in 1..n |-> g.sample]]

\* faulty variant: the right iterator is asked before the left one
Zip_next_right_first(a_some, b_some) ==
    [item |-> a_some /\ b_some, b_taken |-> b_some]

\* Zip::next: a.next()? then b.next()?; b_taken says that b gave up an item
Zip_next(a_some, b_some) ==
    [item |-> a_some /\ b_some, b_taken |-> a_some /\ b_some]

RECURSIVE ZipTaken(_, _)
\* how many items a zip of a_len slots takes from b_len values
ZipTaken(a_len, b_len) ==
    LET z == Zip_next(a_len > 0, b_len > 0)
    IN  IF z.item THEN 1 + ZipTaken(a_len - 1, b_len - 1)
        ELSE IF z.b_taken THEN 1 ELSE 0

\* one layout's side of the run
NewProcess ==
    [sinus |-> Sinus_new, pc |-> "idle", frame_index |-> 0, pulled |-> 0,
     taken |-> 0, written |-> {}, played |-> <<>>, callbacks |-> 0]

FillInit ==
    /\ CodecIdle
    /\ fmt \in BufFormats
    /\ \E F \in 0..MaxF, C \in 0..MaxC :
          /\ iview = [samples |-> [k \in 1..(F * C) |-> Stored(fmt, k)],
                      frame_count |-> F, channel_count |-> C]
          /\ sview = [channels |-> [c \in 1..C |-> [f \in 1..F |-> Stored(fmt, C * (f - 1) + c)]],
                      frame_count |-> F]
    /\ last = NoWrite
    /\ out = NoReads
    /\ \E available \in {Unbounded} \cup 0..(MaxF + Extra), surplus \in 0..Extra :
          source = [pc |-> "fill", available |-> available, surplus |-> surplus,
                    i |-> NewProcess, s |-> NewProcess]

\* frames.next() of the running call has a frame to give
FramesLeft(p) == source.available = Unbounded \/ p.pulled < source.available

\* the process after a call of write_frames has returned; frames are the
\* frames the buffer now holds
Returned(p, frames) ==
    [p EXCEPT !.pc = "idle", !.callbacks = @ + 1, !.played = @ \o frames]

\* the call starts
Called(p) ==
    [p EXCEPT !.pc = "write_frames", !.frame_index = 0, !.pulled = 0,
              !.taken = 0, !.written = {}]

\* the process after one turn of the loop took a frame from the input
Pulled(p, g, taken) ==
    [p EXCEPT !.sinus = g.self, !.pulled = @ + 1,
              !.taken = IF taken > @ THEN taken ELSE @]

\* fill_buffer on the interleaved buffer, up to the loop of write_frames:
\* chunks_exact_mut(0) panics
FillBufferInterleaved ==
    /\ source.pc = "fill"
    /\ source.i.pc = "idle"
    /\ source.i.callbacks < MaxCallbacks
    /\ source' = [source EXCEPT !.i = IF iview.channel_count = 0
                                      THEN [@ EXCEPT !.pc = "panicked"]
                                      ELSE Called(@)]
    /\ UNCHANGED <<fmt, iview, sview, last, out, codecVars>>

\* one turn of the for loop of InterleavedBufferMut::write_frames
WriteFramesInterleaved ==
    /\ source.pc = "fill"
    /\ source.i.pc = "write_frames"
    /\ LET p == source.i
           chunk_size == iview.channel_count
           turn == Zip_next(p.frame_index < Len(iview.samples) \div chunk_size,
                            FramesLeft(p))
           g == Sinus_frame(p.sinus, chunk_size + source.surplus)
           q == IF turn.b_taken THEN Pulled(p, g, ZipTaken(chunk_size, Len(g.frame)))
                ELSE p
       IN  IF turn.item
           THEN /\ iview' = [iview EXCEPT !.samples =
                                ZipWrite(fmt, @, RangePositions(p.frame_index * chunk_size,
                                                                chunk_size), g.frame)]
                /\ source' = [source EXCEPT !.i =
                                [q EXCEPT !.frame_index = @ + 1,
                                          !.written = @ \cup
                                              {<<c, p.frame_index>> :
                                                  c \in 0..(Min(chunk_size, Len(g.frame)) - 1)}]]
           ELSE /\ iview' = iview
                /\ source' = [source EXCEPT !.i =
                                Returned(q, [f \in 1..FrameCount |->
                                                FrameValues("interleaved", f - 1)])]
    /\ UNCHANGED <<fmt, sview, last, out, codecVars>>

\* fill_buffer on the separated buffer, up to the for_each of write_frames
FillBufferSeparated ==
    /\ source.pc = "fill"
    /\ source.s.pc = "idle"
    /\ source.s.callbacks < MaxCallbacks
    /\ source' = [source EXCEPT !.s = Called(@)]
    /\ UNCHANGED <<fmt, iview, sview, last, out, codecVars>>

\* one turn of the for_each of SeparatedBufferMut::write_frames
WriteFramesSeparated ==
    /\ source.pc = "fill"
    /\ source.s.pc = "write_frames"
    /\ LET p == source.s
           channel_count == Len(sview.channels)
           turn == Zip_next(p.frame_index < sview.frame_count, FramesLeft(p))
           g == Sinus_frame(p.sinus, channel_count + source.surplus)
           q == IF turn.b_taken THEN Pulled(p, g, ZipTaken(channel_count, Len(g.frame)))
                ELSE p
           r == SeparatedBufferMut_write_frame(fmt, sview, p.frame_index, g.frame)
       IN  IF turn.item
           THEN /\ sview' = r.self
                /\ source' = [source EXCEPT !.s =
                                IF r.panic
                                THEN [q EXCEPT !.pc = "panicked"]
                                ELSE [q EXCEPT !.frame_index = @ + 1,
                                               !.written = @ \cup
                                                   {<<c, p.frame_index>> :
                                                       c \in 0..(Min(channel_count, Len(g.frame)) - 1)}]]
           ELSE /\ sview' = sview
                /\ source' = [source EXCEPT !.s =
                                Returned(q, [f \in 1..sview.frame_count |->
                                                [c \in 1..channel_count |->
                                                    Decode(fmt, sview.channels[c][f])]])]
    /\ UNCHANGED <<fmt, iview, last, out, codecVars>>

NextFill ==
    \/ FillBufferInterleaved
    \/ WriteFramesInterleaved
    \/ FillBufferSeparated
    \/ WriteFramesSeparated

SpecFill == FillInit /\ [][NextFill]_vars

\* the host keeps calling back and a running call keeps running
SpecFillFair ==
    /\ SpecFill
    /\ WF_vars(FillBufferInterleaved)
    /\ WF_vars(WriteFramesInterleaved)
    /\ WF_vars(FillBufferSeparated)
    /\ WF_vars(WriteFramesSeparated)

\* every sample position of the buffer
AllPositions == {<<c, f>> : c \in 0..(ChannelCount - 1), f \in 0..(FrameCount - 1)}

\* the sides of an AudioSource run
Processes == {source.i, source.s}

\* a call of fill_buffer has returned with every sample position overwritten
Filled(p) == p.pc = "idle" /\ p.callbacks > 0 /\ p.written = AllPositions

\* C24: fill_buffer of a source that hands write_frames an unbounded sequence
\* of frames of at least channel_count values returns after finitely many steps
\* with every sample position of the buffer overwritten, on both layouts.
C24_FillReturns ==
    source.available = Unbounded => (<>Filled(source.i) /\ <>Filled(source.s))

\* the same on buffers with at least one channel
C24_FillReturnsWithChannels ==
    (source.available = Unbounded /\ ChannelCount > 0)
        => (<>Filled(source.i) /\ <>Filled(source.s))

\* whenever a call has returned, it has overwritten every sample position
C24_ReturnedOverwritten ==
    source.available = Unbounded =>
        \A p \in Processes : (p.pc = "idle" /\ p.callbacks > 0) => p.written = AllPositions

\* C24, the failing case: fill_buffer on an interleaved buffer of 2 frames and
\* no channels has panicked; on the separated buffer it has returned
C24_Witness ==
    /\ source.pc = "fill"
    /\ source.available = Unbounded
    /\ FrameCount = 2
    /\ ChannelCount = 0
    /\ source.i.pc = "panicked"
    /\ Filled(source.s)

RECURSIVE Clocked(_)
\* the Sinus after k calls of next
Clocked(k) == IF k = 0 THEN Sinus_new ELSE Sinus_next(Clocked(k - 1)).self

\* the k-th value the Sinus generates, k = 1, 2, ...
Generated(k) == Sinus_next(Clocked(k - 1)).sample

\* how many frames the input of one call can give
Available == IF source.available = Unbounded THEN FrameCount ELSE source.available

\* a call has returned on that side
HasReturned(p) == p.pc = "idle" /\ p.callbacks > 0

\* a call has ended on that side, by returning or by panicking
HasEnded(p) == HasReturned(p) \/ p.pc = "panicked"

\* C30: write_frames pulls from its input exactly min(frame_count, frames
\* available) frames and from each pulled frame at most channel_count values;
\* hence when a generator of one value per frame fills consecutive buffers
\* through write_frames, the k-th frame written overall holds the k-th
\* generated value.
C30_PullsExactly ==
    \A p \in Processes :
        /\ p.taken <= ChannelCount
        /\ p.pulled <= Min(FrameCount, Available)
        /\ HasEnded(p) => p.pulled = Min(FrameCount, Available)
        /\ (HasReturned(p) /\ source.available = Unbounded) =>
              /\ Len(p.played) = p.callbacks * FrameCount
              /\ \A k \in 1..Len(p.played) :
                    p.played[k] = [c \in 1..ChannelCount |-> Generated(k)]

\* the same, but for the panic of the interleaved layout without channels
C30_PullsExactlyWithChannels ==
    /\ ChannelCount > 0 => C30_PullsExactly
    /\ \A p \in Processes : p.pc = "panicked" => (p = source.i /\ ChannelCount = 0)
    /\ C30_PullsExactly \/ (FrameCount > 0 /\ source.available # 0)

\* C30, the good case: two buffers of 4 frames x 2 channels filled on both
\* layouts hold the generated values 1..8, one per frame
C30_WitnessFilled ==
    /\ source.pc = "fill"
    /\ source.available = Unbounded
    /\ FrameCount = 4 /\ ChannelCount = 2
    /\ \A p \in Processes :
          /\ p.callbacks = 2 /\ p.pc = "idle"
          /\ Len(p.played) = 8
          /\ p.played[5] = <<Generated(5), Generated(5)>>
          /\ Generated(5) # Generated(4)

\* C30, the failing case: write_frames on an interleaved buffer of 1 frame and
\* no channels panics without pulling the frame; the separated one pulls it
C30_Witness ==
    /\ source.pc = "fill"
    /\ source.available = Unbounded
    /\ FrameCount = 1
    /\ ChannelCount = 0
    /\ source.i.pc = "panicked"
    /\ source.i.pulled = 0
    /\ HasReturned(source.s)
    /\ source.s.pulled = 1

(***************************************************************************)
(* Cursor runs: two sequences are obtained from producing methods of the   *)
(* same view and advanced one next() at a time, in any order, each until   *)
(* it has reported its end AfterEnd times or has panicked.                 *)
(***************************************************************************)
AfterEnd == 2   \* calls of next() followed up from the first None on

Methods == {"frames", "channels", "samples", "samples_interleaved", "samples_separated"}

\* the type of the sequence a producing method returns
Kind(layout, method) ==
    CASE method = "frames" ->
            IF layout = "interleaved" THEN "InterleavedFrames" ELSE "SeparatedFrames"
      [] method = "channels" ->
            IF layout = "interleaved" THEN "InterleavedChannels" ELSE "SeparatedChannels"
      [] method = "samples" ->
            IF layout = "interleaved" THEN "InterleavedSamples" ELSE "SeparatedSamples"
      [] method = "samples_interleaved" ->
            IF layout = "interleaved" THEN "InterleavedSamplesInterleaved"
            ELSE "SeparatedSamplesInterleaved"
      [] method = "samples_separated" ->
            IF layout = "interleaved" THEN "InterleavedSamplesSeparated"
            ELSE "SeparatedSamplesSeparated"

\* view.method(): the sequence, or the panic of the call
Produce(layout, method, iv, sv) ==
    IF layout = "interleaved"
    THEN CASE method = "frames" -> InterleavedFrames_new(iv)
           [] method = "channels" -> Ok(InterleavedChannels_new(iv))
           [] method = "samples" ->
                 Ok(InterleavedSamples_new(iv.samples, iv.frame_count, iv.channel_count))
           [] method = "samples_interleaved" -> Ok(InterleavedSamplesInterleaved_new(iv))
           [] method = "samples_separated" -> Ok(InterleavedSamplesSeparated_new(iv))
    ELSE CASE method = "frames" -> SeparatedFrames_new(sv)
           [] method = "channels" -> Ok(SeparatedChannels_new(sv))
           [] method = "samples" -> Ok(SeparatedSamples_new(sv))
           [] method = "samples_interleaved" -> Ok(SeparatedSamplesInterleaved_new(sv))
           [] method = "samples_separated" -> Ok(SeparatedSamplesSeparated_new(sv))

\* a sequence just obtained: nothing yielded yet
Cursor(layout, method, r) ==
    [layout |-> layout, method |-> method, created |-> ~r.panic, st |-> r.self,
     items |-> <<>>, calls |-> 0, ends |-> 0, revived |-> FALSE, panic |-> FALSE]

\* faulty variant: the position lives in the view, so that a sequence continues
\* where the other sequence of the same method stands
Advanced_shared(cursors, k) ==
    LET c == cursors[k]
        o == cursors[3 - k]
        from == IF o.method = c.method /\ o.created THEN o.st ELSE c.st
        r == IterNext(Kind(c.layout, c.method), fmt, from)
    IN  [cursors EXCEPT ![k] =
            [c EXCEPT !.st = r.st,
                      !.calls = @ + 1,
                      !.panic = r.panic,
                      !.items = IF r.item.some THEN Append(@, r.item.val) ELSE @,
                      !.ends = IF ~r.panic /\ ~r.item.some THEN @ + 1 ELSE @,
                      !.revived = @ \/ (r.item.some /\ c.ends > 0)]]

\* next(&mut self) on the k-th sequence: only that sequence changes
Advanced(cursors, k) ==
    LET c == cursors[k]
        r == IterNext(Kind(c.layout, c.method), fmt, c.st)
    IN  [cursors EXCEPT ![k] =
            [c EXCEPT !.st = r.st,
                      !.calls = @ + 1,
                      !.panic = r.panic,
                      !.items = IF r.item.some THEN Append(@, r.item.val) ELSE @,
                      !.ends = IF ~r.panic /\ ~r.item.some THEN @ + 1 ELSE @,
                      !.revived = @ \/ (r.item.some /\ c.ends > 0)]]

CursorInit ==
    /\ CodecIdle
    /\ source = NoSource
    /\ fmt \in BufFormats
    /\ \E F \in 0..MaxF, C \in 0..MaxC :
          /\ iview = [samples |-> [k \in 1..(F * C) |-> Stored(fmt, k)],
                      frame_count |-> F, channel_count |-> C]
          /\ sview = [channels |-> [c \in 1..C |-> [f \in 1..F |-> Stored(fmt, C * (f - 1) + c)]],
                      frame_count |-> F]
    /\ last = NoWrite
    /\ \E layout \in Layouts, first \in Methods, second \in Methods :
          out = [NoReads EXCEPT !.access =
                    [op |-> "cursors", preI |-> iview, preS |-> sview,
                     cursors |-> <<Cursor(layout, first, Produce(layout, first, iview, sview)),
                                   Cursor(layout, second, Produce(layout, second, iview, sview))>>]]

\* the k-th sequence can be asked for its next item
CanAdvance(k) ==
    LET c == out.access.cursors[k]
    IN  c.created /\ ~c.panic /\ c.ends < AfterEnd /\ Len(c.items) <= MaxF * MaxC

AdvanceFirst ==
    /\ out.access.op = "cursors"
    /\ CanAdvance(1)
    /\ out' = [out EXCEPT !.access.cursors = Advanced(@, 1)]
    /\ UNCHANGED <<fmt, iview, sview, last, codecVars, source>>

AdvanceSecond ==
    /\ out.access.op = "cursors"
    /\ CanAdvance(2)
    /\ out' = [out EXCEPT !.access.cursors = Advanced(@, 2)]
    /\ UNCHANGED <<fmt, iview, sview, last, codecVars, source>>

NextCursor ==
    \/ AdvanceFirst
    \/ AdvanceSecond

SpecCursor == CursorInit /\ [][NextCursor]_vars

\* what the sequence of the k-th cursor yields when it is obtained from the
\* view and advanced alone
Alone(c) ==
    LET r == Produce(c.layout, c.method, out.access.preI, out.access.preS)
    IN  Collect(Kind(c.layout, c.method), fmt, r.self)

ItemBound(method) ==
    CASE method = "frames" -> FrameCount
      [] method = "channels" -> ChannelCount
      [] OTHER -> FrameCount * ChannelCount

\* the sequence has yielded no more than its bound, has reported its end by
\* the call after the bound, and has yielded nothing after its end
EndsInBound(c) ==
    /\ Len(c.items) <= ItemBound(c.method)
    /\ c.calls > ItemBound(c.method) => (c.ends > 0 \/ c.panic)
    /\ ~c.revived

\* C26: every sequence returned by frames(), channels(), samples(),
\* samples_interleaved() or samples_separated() reports its end after at most
\* frame_count x channel_count items (frames(): frame_count, channels():
\* channel_count), and after that every further next() reports the end again.
C26_SequencesEnd ==
    out.access.op = "cursors" =>
        \A k \in 1..2 :
            LET c == out.access.cursors[k]
            IN  c.created => (~c.panic /\ EndsInBound(c))

\* the same, but for the panic of samples_interleaved() on a separated view
\* without channels
C26_SequencesEndOrPanic ==
    out.access.op = "cursors" =>
        \A k \in 1..2 :
            LET c == out.access.cursors[k]
            IN  c.created =>
                  /\ EndsInBound(c)
                  /\ c.panic => /\ c.layout = "separated"
                                /\ c.method = "samples_interleaved"
                                /\ ChannelCount = 0
                                /\ FrameCount > 0
                  /\ (c.ends = 0 /\ ~c.panic) => CanAdvance(k)

\* C26, the good case: samples() of the separated scenario view has yielded its
\* 8 items and reported its end twice
C26_WitnessEnded ==
    /\ out.access.op = "cursors"
    /\ FrameCount = 4 /\ ChannelCount = 2
    /\ out.access.cursors[1].layout = "separated"
    /\ out.access.cursors[1].method = "samples"
    /\ Len(out.access.cursors[1].items) = 8
    /\ out.access.cursors[1].ends = AfterEnd

\* C26, the failing case: samples_interleaved() of a separated view of 1 frame
\* and no channels panics on its first next()
C26_Witness ==
    /\ out.access.op = "cursors"
    /\ FrameCount = 1 /\ ChannelCount = 0
    /\ out.access.cursors[1].layout = "separated"
    /\ out.access.cursors[1].method = "samples_interleaved"
    /\ out.access.cursors[1].calls = 1
    /\ out.access.cursors[1].panic

(***************************************************************************)
(* Packed runs: write_sample on views of the 4-byte packed 24-bit types,   *)
(* whose slots hold 85 in the unused byte before the write.                *)
(***************************************************************************)
PackedInit ==
    /\ CodecIdle
    /\ source = NoSource
    /\ fmt \in Packed4B
    /\ \E F \in 0..MaxF, C \in 0..MaxC :
          /\ iview = [samples |-> [k \in 1..(F * C) |-> Stored(fmt, k)],
                      frame_count |-> F, channel_count |-> C]
          /\ sview = [channels |-> [c \in 1..C |-> [f \in 1..F |-> Stored(fmt, C * (f - 1) + c)]],
                      frame_count |-> F]
    /\ last = NoWrite
    /\ out = NoReads

\* buffer.write_sample(address, sample) with a sample of the view's primitive
WritePackedSample ==
    \E channel \in 0..MaxC, frame \in 0..MaxF, sample \in PrimSamples(fmt) :
        LET address == SampleAddress(channel, frame)
        IN  Written("write_sample", address, sample,
                    InterleavedBufferMut_write_sample(fmt, iview, address, sample),
                    SeparatedBufferMut_write_sample(fmt, sview, address, sample))

NextPacked ==
    \/ WritePackedSample
    \/ ReadSamplesInterleaved

SpecPacked == PackedInit /\ [][NextPacked]_vars

\* write_sample has stored a sample at an address of the grid of a 4-byte
\* packed view
PackedWritten ==
    /\ fmt \in Packed4B
    /\ last.op = "write_sample"
    /\ last.index.channel < ChannelCount
    /\ last.index.frame < FrameCount
    /\ Completed

\* the three bytes of a 4-byte packed raw sample that encode the value
ValueBytes(t, raw) == IF UnusedByte(t) = 4 THEN SubSeq(raw, 1, 3) ELSE SubSeq(raw, 2, 4)

\* C27: storing an encoded primitive into a slot of a 4-byte packed 24-bit
\* view writes only the three bytes that encode the value; the unused fourth
\* byte of the slot keeps the value it had before the write.
C27_UnusedByteKept ==
    PackedWritten =>
        \A layout \in Layouts :
            LET c == last.index.channel
                f == last.index.frame
                raw == RawAt(layout, iview, sview, c, f)
                pre == RawAt(layout, last.preI, last.preS, c, f)
            IN  /\ Decode(fmt, raw) = last.values
                /\ raw[UnusedByte(fmt)] = pre[UnusedByte(fmt)]

\* C27 as the code has it: the store replaces all four bytes of the slot; the
\* three value bytes are the low 24 bits of the value and the unused byte is
\* the top byte of the 32-bit representation (255 for a negative I24 value, else
\* 0), whatever the slot held before
C27_UnusedByteOverwritten ==
    PackedWritten =>
        \A layout \in Layouts :
            LET c == last.index.channel
                f == last.index.frame
                raw == RawAt(layout, iview, sview, c, f)
                low == last.values % 16777216
                le == <<low % 256, (low \div 256) % 256, low \div 65536>>
            IN  /\ Decode(fmt, raw) = last.values
                /\ ValueBytes(fmt, raw) = IF UnusedByte(fmt) = 4 THEN le ELSE Reverse(le)
                /\ raw[UnusedByte(fmt)] = IF last.values < 0 THEN 255 ELSE 0

\* write_sample((1, 2), -1) on views of I24 BE4B: the slot held 85 in its
\* unused byte and holds 255 there now
C27_Witness ==
    /\ PackedWritten
    /\ fmt = "I24_BE4B"
    /\ last.index = SampleAddress(1, 2)
    /\ last.values = -1
    /\ RawAt("interleaved", last.preI, last.preS, 1, 2)[1] = 85
    /\ RawAt("separated", last.preI, last.preS, 1, 2)[1] = 85
    /\ RawAt("interleaved", iview, sview, 1, 2) = <<255, 255, 255, 255>>
    /\ RawAt("separated", iview, sview, 1, 2) = <<255, 255, 255, 255>>

\* on both layouts every address of the grid outside Target holds the raw
\* sample it held before the last write
OnlyModified(Target(_, _)) ==
    \A layout \in Layouts :
        \A c \in 0..(ChannelCount - 1), f \in 0..(FrameCount - 1) :
            Target(c, f) \/ RawAt(layout, iview, sview, c, f)
                                = RawAt(layout, last.preI, last.preS, c, f)

\* write_sample(a, v) changes no address other than a
SampleWriteConfined ==
    last.op = "write_sample" =>
        LET Target(c, f) == c = last.index.channel /\ f = last.index.frame
        IN  OnlyModified(Target)

\* write_frame(i, ..) changes no sample whose frame differs from i
FrameWriteConfined ==
    last.op = "write_frame" =>
        LET Target(c, f) == f = last.index
        IN  OnlyModified(Target)

\* write_channel(c, ..) changes no sample whose channel differs from c
ChannelWriteConfined ==
    last.op = "write_channel" =>
        LET Target(c, f) == c = last.index
        IN  OnlyModified(Target)

\* C28: a single-target write never modifies a sample outside its target:
\* write_sample(a, v) changes no address other than a, write_frame(i, ..) no
\* sample whose frame differs from i, write_channel(c, ..) no sample whose
\* channel differs from c; with a target out of range no sample is modified.
C28_SingleTargetWrites ==
    /\ SampleWriteConfined
    /\ FrameWriteConfined
    /\ ChannelWriteConfined

\* the same for write_frame, for write_sample and write_channel with a target
\* inside the grid, and for the separated layout with a channel out of range
C28_ConfinedWhereChecked ==
    /\ FrameWriteConfined
    /\ (last.op = "write_sample"
            /\ last.index.channel < ChannelCount /\ last.index.frame < FrameCount)
        => SampleWriteConfined
    /\ (last.op = "write_channel" /\ last.index < ChannelCount) => ChannelWriteConfined
    /\ last.op \in {"write_sample", "write_channel"} =>
          LET channel == IF last.op = "write_sample" THEN last.index.channel ELSE last.index
          IN  (channel >= ChannelCount) =>
                 \A c \in 0..(ChannelCount - 1), f \in 0..(FrameCount - 1) :
                     RawAt("separated", iview, sview, c, f)
                        = RawAt("separated", last.preI, last.preS, c, f)

\* C28, the failing case: write_channel(2, [100, 101]) on the interleaved view
\* of 2 channels x 4 frames stores 100 at (0, 1) and 101 at (0, 2)
C28_Witness ==
    /\ last.op = "write_channel"
    /\ FrameCount = 4
    /\ ChannelCount = 2
    /\ last.index = 2
    /\ last.values = <<100, 101>>
    /\ ~last.ipanic
    /\ ValueAt("interleaved", 0, 1) = 100
    /\ ValueAt("interleaved", 0, 2) = 101
    /\ sview = last.preS

\* the view has no sample: channel_count = 0 or frame_count = 0
ZeroDimension == FrameCount = 0 \/ ChannelCount = 0

\* a traversal that was advanced to its end did not panic and yielded nothing
YieldsNothing(r) == ~r.panic /\ r.items = <<>>

\* a sequence of views was created and advanced to its end, and every view it
\* yielded iterates to its end yielding nothing
ViewsYieldNothing(views) ==
    /\ ~views.panic
    /\ \A j \in 1..Len(views.views) : YieldsNothing(views.views[j])

\* frames() of both views, advanced to the end, every frame iterated
FramesOfViews ==
    [i |-> AccessedAll(Iterated("InterleavedFrames", InterleavedFrames_new(iview)),
                       SampleSlice_into_iter, "Samples"),
     s |-> AccessedAll(Iterated("SeparatedFrames", SeparatedFrames_new(sview)),
                       SeparatedFrame_into_iter, "SeparatedFrameSamples")]

\* channels() of both views, advanced to the end, every channel iterated
ChannelsOfViews ==
    [i |-> AccessedAll(Collect("InterleavedChannels", fmt, InterleavedChannels_new(iview)),
                       InterleavedChannel_into_iter, "InterleavedChannelSamples"),
     s |-> AccessedAll(Collect("SeparatedChannels", fmt, SeparatedChannels_new(sview)),
                       SampleSlice_into_iter, "Samples")]

WholeBufferWrites ==
    {"write_frames", "write_channels", "write_samples_interleaved", "write_samples_separated"}

\* the traversals made so far on the view of the layout
TraversalsOf(layout) ==
    {Result(r, layout) : r \in {t \in {out.samples, out.samples_interleaved,
                                        out.samples_separated} : t.done}}

\* C29: on a view with channel_count = 0 or frame_count = 0 no whole-buffer
\* operation fails: frames(), channels(), samples(), samples_interleaved() and
\* samples_separated() can be created and advanced to their end, yielding no
\* sample values, and write_frames, write_channels, write_samples_interleaved
\* and write_samples_separated complete without modifying anything.
C29_ZeroDimension ==
    ZeroDimension =>
        /\ \A layout \in Layouts :
              /\ ViewsYieldNothing(Result(FramesOfViews, layout))
              /\ ViewsYieldNothing(Result(ChannelsOfViews, layout))
              /\ \A r \in TraversalsOf(layout) : YieldsNothing(r)
        /\ last.op \in WholeBufferWrites =>
              (Completed /\ iview = last.preI /\ sview = last.preS)

\* what does hold on a view without samples: nothing is ever yielded or
\* modified, and the operations outside the listed ones do not fail
C29_ZeroDimensionSafe ==
    ZeroDimension =>
        /\ \A layout \in Layouts :
              /\ Result(FramesOfViews, layout).panic => (layout = "interleaved" /\ ChannelCount = 0)
              /\ \A r \in TraversalsOf(layout) : r.items = <<>>
        /\ ViewsYieldNothing(ChannelsOfViews.s)
        /\ ChannelCount > 0 => ViewsYieldNothing(FramesOfViews.i)
        /\ out.samples.done => YieldsNothing(out.samples.i) /\ YieldsNothing(out.samples.s)
        /\ out.samples_separated.done =>
              YieldsNothing(out.samples_separated.i) /\ YieldsNothing(out.samples_separated.s)
        /\ out.samples_interleaved.done => YieldsNothing(out.samples_interleaved.i)
        /\ last.op \in WholeBufferWrites => (iview = last.preI /\ sview = last.preS)
        /\ last.op = "write_channels" => ~last.spanic
        /\ last.op = "write_frames" => ~last.spanic

\* C29, the failing case: on views of 2 frames and no channels frames() panics
\* on the interleaved view and samples_interleaved() on the separated view
C29_Witness ==
    /\ FrameCount = 2
    /\ ChannelCount = 0
    /\ last.op = "none"
    /\ out.samples_interleaved.done
    /\ out.samples_interleaved.s.panic
    /\ ~out.samples_interleaved.i.panic
    /\ FramesOfViews.i.panic
    /\ ~FramesOfViews.s.panic

====
